---- MODULE Spec2Model ----
(***************************************************************************)
(* Model of mirsha-vet-epigeoai.                                           *)
(*                                                                         *)
(*   SpecLisa   src/core/analysis.py   calculate_lisa, called by the       *)
(*              analytics dashboard page on the table it builds            *)
(*   SpecRates  src/core/database.py   get_dashboard_data over a database  *)
(*              snapshot (outbreaks, outbreak_cases, admin_woredas)        *)
(*   SpecRisk   src/core/risk_model.py calculate_weighted_risk, called by   *)
(*              the early warning page on the layer table it loaded        *)
(*   SpecEcon   src/core/economics.py  calculate_direct_outbreak_cost and   *)
(*              run_cost_benefit_scenario, called by the economic hub page *)
(*   SpecTwice  the rate computation, calculate_weighted_risk,               *)
(*              calculate_direct_outbreak_cost and run_cost_benefit_scenario *)
(*              run again on the object of the first run                    *)
(*   SpecWorkflow  src/core/database.py  the outbreak workflow of one user   *)
(*              session: report, assign, investigate, lab result            *)
(*   SpecSessions  the same workflow for the sessions that share the cached  *)
(*              connection, interleaved statement by statement              *)
(*   SpecApi    api.py  check_api_key and the two endpoints                  *)
(*   SpecRiskData  src/scripts/generate_risk_data.py and the early warning   *)
(*              page that scores the generated layers                       *)
(*                                                                         *)
(* A table (pandas DataFrame) is a record [n, data]: n rows and a function *)
(* from column name to the sequence of the column's n values.              *)
(***************************************************************************)
EXTENDS Integers, Sequences, FiniteSets

VARIABLES
    built_gdf,      \* the table as the page built it (woreda_summary_gdf, pristine)
    gdf,            \* the table object the page passes to calculate_lisa
    lisa_arg,       \* the arguments of the latest call: [gdf, attribute_column]
    lisa_gdf,       \* the table the latest call returned
    lisa_path,      \* return path of the latest call
    lisa_warned,    \* the latest call emitted st.warning
    lisa_raised,    \* the call that raised inside the latest call's try block
    lisa_cache,     \* entries of the st.cache_data cache of calculate_lisa
    lisa_calls,     \* number of calls made
    db,             \* database snapshot: outbreaks and outbreak_cases
    dashboard_gdf,  \* first table returned by get_dashboard_data
    dash_status,    \* "none", "ok" (lines 298-326) or "failed" (lines 259-260, 328-330)
    dash_fault,     \* what went wrong in the latest get_dashboard_data call
    risk_gdf,       \* the layer table object the page passes to calculate_weighted_risk
    weights,        \* weights_dict: factor name -> weight
    risk_arg,       \* the layer table as it was when the call was made
    risk_map_gdf,   \* the table calculate_weighted_risk returned
    risk_warnings,  \* the factors calculate_weighted_risk warned about
    risk_status,    \* "none" or "done"
    cases_df,       \* the table object the page passes to calculate_direct_outbreak_cost
    cases_arg,      \* that table as it was when the latest call was made
    costs,          \* the dict calculate_direct_outbreak_cost returned to the page
    scenario_in,    \* the arguments of run_cost_benefit_scenario
    scenario,       \* the dict run_cost_benefit_scenario returned
    cost_cache,     \* entries of the st.cache_data cache of calculate_direct_outbreak_cost
    econ_last,      \* the latest call of the page: "none", "cost" or "scenario"
    econ_calls,     \* number of calls the page made
    twice_op,       \* the computation that is run again: rates, risk, cost or scenario
    twice_obj,      \* the object it is run on, as the runs left it
    twice_weights,  \* the weights of a risk run
    twice_cache,    \* the st.cache_data store of the cost calls
    twice_out,      \* what each run returned, in order
    conn,           \* what get_db_connection caches: "open", "none" (connect failed) or "unused"
    durable,        \* the committed contents of outbreaks, outbreak_cases and samples
    conn_db,        \* the contents as the connection's open transaction sees them
    sessions,       \* the user sessions that share the cached connection
    calls,          \* per session: the database call in progress and its next statement
    ret,            \* the latest call that returned, with its arguments and result
    wf_ops,         \* number of database calls started
    wf_hist,        \* per outbreak: what has succeeded for it so far
    api_keys,       \* table api_keys: per key "absent", "active" or "inactive"
    api_data,       \* the confirmed zoonotic outbreaks the endpoint's query selects
    api_response,   \* the latest request and the response Flask sent for it
    woredas_n,      \* number of rows of admin_woredas
    risk_file,      \* the layer table in woreda_risk_factors.gpkg (no columns: no file)
    gen_status,     \* how generate_and_save_risk_data ended, "none" before it ran
    ews_model,      \* the disease model selected on the early warning page
    ews_map         \* the table calculate_weighted_risk returned to that page

lisaVars == <<built_gdf, gdf, lisa_arg, lisa_gdf, lisa_path, lisa_warned, lisa_raised,
              lisa_cache, lisa_calls>>
rateVars == <<db, dashboard_gdf, dash_status, dash_fault>>
riskVars == <<risk_gdf, weights, risk_arg, risk_map_gdf, risk_warnings, risk_status>>
econVars == <<cases_df, cases_arg, costs, scenario_in, scenario, cost_cache, econ_last,
              econ_calls>>
twiceVars == <<twice_op, twice_obj, twice_weights, twice_cache, twice_out>>
wfVars == <<conn, durable, conn_db, sessions, calls, ret, wf_ops, wf_hist>>
apiVars == <<api_keys, api_data, api_response>>
genVars == <<woredas_n, risk_file, gen_status, ews_model, ews_map>>
vars == <<lisaVars, rateVars, riskVars, econVars, twiceVars, wfVars, apiVars, genVars>>

\* the variables outside each component, which its actions leave alone
outsideLisa == <<rateVars, riskVars, econVars, twiceVars, wfVars, apiVars, genVars>>
outsideRates == <<lisaVars, riskVars, econVars, twiceVars, wfVars, apiVars, genVars>>
outsideRisk == <<lisaVars, rateVars, econVars, twiceVars, wfVars, apiVars, genVars>>
outsideEcon == <<lisaVars, rateVars, riskVars, twiceVars, wfVars, apiVars, genVars>>
outsideTwice == <<lisaVars, rateVars, riskVars, econVars, wfVars, apiVars, genVars>>
outsideWorkflow == <<lisaVars, rateVars, riskVars, econVars, twiceVars, apiVars,
                     genVars>>
outsideApi == <<lisaVars, rateVars, riskVars, econVars, twiceVars, wfVars, genVars>>
outsideRiskData == <<lisaVars, rateVars, riskVars, econVars, twiceVars, wfVars,
                     apiVars>>

\* ---------------------------------------------------------------- bounds
MaxRegions == 3
MaxVal == 1
MaxCalls == 2
GridW == 3
GridH == 2
NumWoredas == 2
MaxOutbreaks == 2
MaxCaseRows == 2
MaxCount == 1

\* ---------------------------------------------------------------- tables
EmptyTable == [n |-> 0, data |-> [c \in {} |-> <<>>]]

Columns(df) == DOMAIN df.data

\* a database without rows
NoDb == [outbreaks |-> <<>>, outbreak_cases |-> <<>>, samples |-> <<>>]

\* no database call has returned yet
NoReturn ==
    [op |-> "none", session |-> 0, id |-> 0, sample |-> 0, name |-> "", result |-> "",
     lines |-> 0, samples |-> 0, by |-> 0, at |-> 0, ok |-> FALSE, before |-> NoDb]

\* no request has been answered yet
NoResponse ==
    [endpoint |-> "", key |-> "", code |-> 0, body |-> "", rows |-> {},
     handler_ran |-> FALSE]

\* values of the economics variables before any call
NoCosts == [total_cost |-> <<0, 1>>, mortality_cost |-> <<0, 1>>,
            morbidity_cost |-> <<0, 1>>]
NoScenarioIn ==
    [projected_cases |-> 0, projected_deaths |-> 0,
     projected_species_distribution |-> <<>>, intervention_cost |-> 0,
     intervention_effectiveness_percent |-> 0]
NoScenario ==
    [cost_no_action |-> <<0, 1>>, cost_with_intervention |-> <<0, 1>>,
     benefits_averted_cost |-> <<0, 1>>, net_benefit |-> <<0, 1>>,
     roi_percent |-> <<0, 1>>]

\* DataFrame.empty: no rows or no columns
IsEmpty(df) == df.n = 0 \/ Columns(df) = {}

\* df[c] = seq
SetColumn(df, c, seq) ==
    [df EXCEPT !.data = [k \in (DOMAIN df.data) \cup {c} |->
                            IF k = c THEN seq ELSE df.data[k]]]

\* df[c] = scalar (broadcast over the rows)
SetScalar(df, c, v) == SetColumn(df, c, [i \in 1..df.n |-> v])

\* Series.nunique()
NUnique(seq) == Cardinality({seq[i] : i \in DOMAIN seq})

RECURSIVE SumSeq(_)
SumSeq(s) == IF s = <<>> THEN 0 ELSE Head(s) + SumSeq(Tail(s))

RECURSIVE SumOver(_, _)
SumOver(f, S) ==
    IF S = {} THEN 0
    ELSE LET x == CHOOSE x \in S : TRUE IN f[x] + SumOver(f, S \ {x})

\* ---------------------------------------------------------------- geometry
\* Regions are unit squares of a GridW x GridH grid, numbered row by row;
\* the geometry column holds the square's number.
Cells == 1..(GridW * GridH)
CellX(c) == (c - 1) % GridW
CellY(c) == (c - 1) \div GridW
Abs(x) == IF x < 0 THEN -x ELSE x

\* two squares share an edge or a corner
Touches(a, b) ==
    /\ a # b
    /\ Abs(CellX(a) - CellX(b)) <= 1
    /\ Abs(CellY(a) - CellY(b)) <= 1

\* weights.Queen.from_dataframe(gdf): the neighbour set of every row
Queen(df) ==
    [i \in 1..df.n |->
        {j \in 1..df.n : Touches(df.data["geometry"][i], df.data["geometry"][j])}]

\* ---------------------------------------------------------------- rationals
\* A number is a pair <<numerator, denominator>> in lowest terms with a
\* positive denominator; <<0, 0>> is NaN (pandas' missing marker) and
\* <<1, 0>> is +inf (a positive float divided by zero).
RECURSIVE Gcd(_, _)
Gcd(a, b) == IF b = 0 THEN a ELSE Gcd(b, a % b)

NaN == <<0, 0>>
Inf == <<1, 0>>
Rat(n, d) ==
    IF d = 0 THEN (IF n = 0 THEN NaN ELSE Inf)
    ELSE LET g == Gcd(Abs(n), Abs(d))
             s == IF d < 0 THEN -1 ELSE 1
         IN <<(s * n) \div g, (s * d) \div g>>
Num(k) == <<k, 1>>
IsNaN(a) == a = NaN

\* a > b on floats: FALSE when either side is NaN
Greater(a, b) ==
    /\ ~IsNaN(a) /\ ~IsNaN(b)
    /\ IF a = Inf THEN b # Inf
       ELSE IF b = Inf THEN FALSE
       ELSE a[1] * b[2] > b[1] * a[2]

\* ---------------------------------------------------------------- Local Moran
Permutations == 999
AlphaNum == 5
AlphaDen == 100
Alpha == Rat(AlphaNum, AlphaDen)

\* z = y - y.mean(), times the row count (the sign is that of the deviation)
MoranZ(y, i) == Len(y) * y[i] - SumSeq(y)

\* spatial lag of z under row-standardized weights, times the row count and
\* the region's neighbour count; 0 for a region without neighbours
MoranLag(y, w, i) == SumOver([j \in 1..Len(y) |-> MoranZ(y, j)], w[i])

\* Quadrant with the High-High and Low-Low codes exchanged
QuadrantSwapped(zp, lp) ==
    IF zp THEN (IF lp THEN 3 ELSE 4) ELSE (IF lp THEN 2 ELSE 1)

\* Moran_Local's quadrant code from zp = (z > 0) and lp = (lag > 0)
Quadrant(zp, lp) ==
    IF zp THEN (IF lp THEN 1 ELSE 4) ELSE (IF lp THEN 2 ELSE 3)

\* lisa.q
MoranQ(y, w) ==
    [i \in 1..Len(y) |-> Quadrant(MoranZ(y, i) > 0, MoranLag(y, w, i) > 0)]

\* The conditional permutation test counts, per region, the permuted
\* statistics that are >= the observed one (larger), folds the count to the
\* smaller tail and returns p_sim = (larger + 1) / (permutations + 1).
Fold(k) == IF Permutations - k < k THEN Permutations - k ELSE k
MoranPSim(larger) ==
    [i \in DOMAIN larger |-> Rat(Fold(larger[i]) + 1, Permutations + 1)]

\* counts the permutation test is let to return: 50 of 999 (p = 0.051, the
\* first p above 0.05) and 950 of 999 (folded to 49, p = 0.05)
LargerSamples == {50, Permutations - 49}

\* ---------------------------------------------------------------- calculate_lisa
NotSignificant == "Not Significant"
AnalysisError == "Analysis Error"
NoLabel == "nan"

\* cluster_labels; Series.map gives NaN for a key that is not in the dict
ClusterLabels(q) ==
    CASE q = 1 -> "High-High (Hotspot)"
      [] q = 2 -> "Low-High (Doughnut)"
      [] q = 3 -> "Low-Low (Coldspot)"
      [] q = 4 -> "High-Low (Diamond)"
      [] OTHER -> NoLabel

\* IsDegenerate with the distinct-value test off by one
IsDegenerateLax(df, col) ==
    \/ IsEmpty(df)
    \/ col \notin Columns(df)
    \/ NUnique(df.data[col]) < 1

\* the condition of line 12
IsDegenerate(df, col) ==
    \/ IsEmpty(df)
    \/ col \notin Columns(df)
    \/ NUnique(df.data[col]) < 2

\* lines 13-16
DegenerateResult(df) ==
    SetScalar(SetScalar(SetScalar(df, "lisa_q", 0), "lisa_p", Num(1)),
              "cluster_type", NotSignificant)

\* LabelFor with the comparison of line 36 made >=
LabelForStrict(q, p) ==
    IF Greater(p, Alpha) \/ p = Alpha THEN NotSignificant ELSE ClusterLabels(q)

\* lines 35-36 for one row
LabelFor(q, p) ==
    IF Greater(p, Alpha) THEN NotSignificant ELSE ClusterLabels(q)

\* lines 20-38: weights, Local Moran, the three columns
AnalysisResult(df, col, larger) ==
    LET w == Queen(df)
        y == df.data[col]
        q == MoranQ(y, w)
        p == MoranPSim(larger)
        d1 == SetColumn(SetColumn(df, "lisa_q", q), "lisa_p", p)
    IN SetColumn(d1, "cluster_type", [i \in 1..df.n |-> LabelFor(q[i], p[i])])

\* ErrorResult that also resets the two numeric columns
ErrorResultReset(df) ==
    SetScalar(SetScalar(SetScalar(df, "lisa_q", 0), "lisa_p", Num(1)),
              "cluster_type", AnalysisError)

\* lines 39-42
ErrorResult(df) == SetScalar(df, "cluster_type", AnalysisError)

\* The body of calculate_lisa on the table df (which it writes to in place).
\* fail: "none", or the call that raises ("weights" line 20, "moran" line 24).
LisaBody(df, col, fail, larger) ==
    IF IsDegenerate(df, col)
    THEN [gdf |-> DegenerateResult(df), path |-> "degenerate", warned |-> FALSE,
          raised |-> "none"]
    ELSE IF fail # "none"
    THEN [gdf |-> ErrorResult(df), path |-> "error", warned |-> TRUE,
          raised |-> fail]
    ELSE [gdf |-> AnalysisResult(df, col, larger), path |-> "ok", warned |-> FALSE,
          raised |-> "none"]

\* ---------------------------------------------------------------- inputs
RECURSIVE SortedSeq(_)
SortedSeq(S) ==
    IF S = {} THEN <<>>
    ELSE LET m == CHOOSE x \in S : \A y \in S : x <= y
         IN <<m>> \o SortedSeq(S \ {m})

MakeTable(geom, vals) ==
    [n |-> Len(geom),
     data |-> [c \in {"geometry", "total_cases"} |->
                   IF c = "geometry" THEN geom ELSE vals]]

RegionSets == {S \in SUBSET Cells : Cardinality(S) <= MaxRegions}

GenericTables ==
    UNION {{MakeTable(SortedSeq(S), v) : v \in [1..Cardinality(S) -> 0..MaxVal]}
           : S \in RegionSets}

\* tests/core/test_analysis.py: the 2x2 block of squares p1..p4 with
\* total_cases 5, 100, 10, 120
HotspotFixture == MakeTable(<<1, 2, GridW + 1, GridW + 2>>, <<5, 100, 10, 120>>)

AttributeChoices == {"total_cases", "attack_rate_percent"}
FailChoices == {"none", "weights", "moran"}

\* ---------------------------------------------------------------- actions
LisaInit ==
    /\ built_gdf \in GenericTables \cup {HotspotFixture}
    /\ gdf = built_gdf
    /\ lisa_arg = [gdf |-> EmptyTable, attribute_column |-> ""]
    /\ lisa_gdf = EmptyTable
    /\ lisa_path = "none"
    /\ lisa_warned = FALSE
    /\ lisa_raised = "none"
    /\ lisa_cache = {}
    /\ lisa_calls = 0
    /\ db = [outbreaks |-> <<>>, outbreak_cases |-> <<>>]
    /\ dashboard_gdf = EmptyTable
    /\ dash_status = "none"
    /\ dash_fault = "none"
    /\ risk_gdf = EmptyTable
    /\ weights = <<>>
    /\ risk_arg = EmptyTable
    /\ risk_map_gdf = EmptyTable
    /\ risk_warnings = {}
    /\ risk_status = "none"
    /\ cases_df = EmptyTable
    /\ cases_arg = EmptyTable
    /\ costs = NoCosts
    /\ scenario_in = NoScenarioIn
    /\ scenario = NoScenario
    /\ cost_cache = {}
    /\ econ_last = "none"
    /\ econ_calls = 0
    /\ twice_op = "none"
    /\ twice_obj = EmptyTable
    /\ twice_weights = <<>>
    /\ twice_cache = {}
    /\ twice_out = <<>>
    /\ conn = "unused"
    /\ durable = NoDb
    /\ conn_db = NoDb
    /\ sessions = {}
    /\ calls = <<>>
    /\ ret = NoReturn
    /\ wf_ops = 0
    /\ wf_hist = <<>>
    /\ api_keys = <<>>
    /\ api_data = {}
    /\ api_response = NoResponse
    /\ woredas_n = 0
    /\ risk_file = EmptyTable
    /\ gen_status = "none"
    /\ ews_model = ""
    /\ ews_map = EmptyTable

\* calculate_lisa(gdf, attribute_column) behind @st.cache_data: a call with
\* arguments equal to those of an earlier call returns the stored result (and
\* replays its warning) without running the body; any other call runs the
\* body, which writes to the caller's table, and stores the result.
CalculateLisa(col, fail, larger) ==
    LET key == [gdf |-> gdf, attribute_column |-> col]
        hits == {e \in lisa_cache : e.key = key}
    IN /\ lisa_calls < MaxCalls
       /\ lisa_calls' = lisa_calls + 1
       /\ lisa_arg' = key
       /\ IF hits # {}
          THEN LET e == CHOOSE e \in hits : TRUE
               IN /\ lisa_gdf' = e.value
                  /\ lisa_path' = e.path
                  /\ lisa_warned' = e.warned
                  /\ lisa_raised' = "none"
                  /\ UNCHANGED <<gdf, lisa_cache>>
          ELSE LET r == LisaBody(gdf, col, fail, larger)
               IN /\ gdf' = r.gdf
                  /\ lisa_gdf' = r.gdf
                  /\ lisa_path' = r.path
                  /\ lisa_warned' = r.warned
                  /\ lisa_raised' = r.raised
                  /\ lisa_cache' = lisa_cache \cup
                        {[key |-> key, value |-> r.gdf, path |-> r.path,
                          warned |-> r.warned]}
       /\ UNCHANGED <<built_gdf, outsideLisa>>

\* The page reruns and builds its table anew from the cached dashboard data.
Rerun ==
    /\ lisa_calls > 0
    /\ lisa_calls < MaxCalls
    /\ gdf # built_gdf
    /\ gdf' = built_gdf
    /\ UNCHANGED <<built_gdf, lisa_arg, lisa_gdf, lisa_path, lisa_warned,
                   lisa_raised, lisa_cache, lisa_calls, outsideLisa>>

\* the counts the permutation test can return in a call (none is drawn when
\* the test does not run)
LargerChoices(col, fail) ==
    IF fail = "none" /\ ~IsDegenerate(gdf, col)
    THEN [1..gdf.n -> LargerSamples]
    ELSE {[i \in 1..gdf.n |-> 0]}

NextLisa ==
    \/ \E col \in AttributeChoices, fail \in FailChoices :
          \E larger \in LargerChoices(col, fail) :
            CalculateLisa(col, fail, larger)
    \/ Rerun

SpecLisa == LisaInit /\ [][NextLisa]_vars

\* ---------------------------------------------------------------- float columns
\* The totals are SUM()s of integer columns, read into numeric columns that
\* turn to float (with NaN) in the left merge.
\* FloatDiv with the operands exchanged
FloatDivSwapped(a, b) ==
    IF IsNaN(a) \/ IsNaN(b) THEN NaN
    ELSE IF b = Inf THEN (IF a = Inf THEN NaN ELSE Inf)
    ELSE IF a = Inf THEN Num(0)
    ELSE Rat(b[1] * a[2], b[2] * a[1])

\* a / b on float columns: x/0 is inf for x > 0 and NaN for x = 0, never an error
FloatDiv(a, b) ==
    IF IsNaN(a) \/ IsNaN(b) THEN NaN
    ELSE IF a = Inf THEN (IF b = Inf THEN NaN ELSE Inf)
    ELSE IF b = Inf THEN Num(0)
    ELSE Rat(a[1] * b[2], a[2] * b[1])

\* a * k for an integer k > 0
FloatTimes(a, k) ==
    IF IsNaN(a) \/ a = Inf THEN a ELSE Rat(a[1] * k, a[2])

\* Series.where(cond, other) for one row
Where(val, cond, other) == IF cond THEN val ELSE other

\* fillna(v) for one value
FillNa(x, v) == IF IsNaN(x) THEN v ELSE x

\* ---------------------------------------------------------------- database snapshot
\* admin_woredas holds the regions 1..NumWoredas. An outbreak has a region, a
\* disease (or none) and a status; an outbreak_cases row has its outbreak and
\* three counts, which the investigation form keeps >= 0 and never empty.
Woredas == 1..NumWoredas
NoDisease == "NULL"
Diseases == {"FMD", "PPR"}
Statuses == {"Assigned", "Completed", "Confirmed"}
DashboardStatuses == {"Completed", "Confirmed"}
Percent == 100

OutbreakRows == [woreda_code : Woredas, disease_code : Diseases \cup {NoDisease},
                 status : Statuses]

CaseRows(nOutbreaks) ==
    [outbreak_id : 1..nOutbreaks, total_susceptible : 0..MaxCount,
     cases : 0..MaxCount, deaths : 0..MaxCount]

SeqsUpTo(S, k) == UNION {[1..m -> S] : m \in 0..k}

\* ---------------------------------------------------------------- get_dashboard_data
\* the outbreak_cases rows of cases_sql's group (woreda w, disease d):
\* JOIN outbreaks, JOIN diseases, WHERE status IN ('Completed', 'Confirmed')
GroupRows(d_b, w, d) ==
    {i \in 1..Len(d_b.outbreak_cases) :
        LET o == d_b.outbreaks[d_b.outbreak_cases[i].outbreak_id]
        IN /\ o.woreda_code = w
           /\ o.disease_code = d
           /\ o.disease_code # NoDisease
           /\ o.status \in DashboardStatuses}

\* SUM(col) over a group
GroupSum(d_b, rows, col) ==
    SumOver([i \in 1..Len(d_b.outbreak_cases) |-> d_b.outbreak_cases[i][col]], rows)

\* the diseases that have a group in region w (GROUP BY woreda_code, disease_name)
DiseaseOrder == <<"FMD", "PPR">>
GroupsOf(d_b, w) ==
    SelectSeq(DiseaseOrder, LAMBDA d : GroupRows(d_b, w, d) # {})

\* one row of cases_df
CasesRow(d_b, w, d) ==
    LET rows == GroupRows(d_b, w, d)
    IN [woreda_code |-> w, disease_name |-> d,
        total_cases |-> Num(GroupSum(d_b, rows, "cases")),
        total_deaths |-> Num(GroupSum(d_b, rows, "deaths")),
        total_susceptible |-> Num(GroupSum(d_b, rows, "total_susceptible"))]

\* the row a left merge gives a region without a match: NaN in the right
\* table's columns
UnmatchedRow(w) ==
    [woreda_code |-> w, disease_name |-> "nan", total_cases |-> NaN,
     total_deaths |-> NaN, total_susceptible |-> NaN]

\* MergeLeft as an inner merge: regions without a match are dropped
MergeInner(d_b, w) ==
    [k \in 1..Len(GroupsOf(d_b, w)) |-> CasesRow(d_b, w, GroupsOf(d_b, w)[k])]

\* line 303: woredas_gdf.merge(cases_df, on='woreda_code', how='left'), the
\* rows of region w
MergeLeft(d_b, w) ==
    IF GroupsOf(d_b, w) = <<>> THEN <<UnmatchedRow(w)>>
    ELSE [k \in 1..Len(GroupsOf(d_b, w)) |-> CasesRow(d_b, w, GroupsOf(d_b, w)[k])]

RECURSIVE MergeAll(_, _)
MergeAll(d_b, w) ==
    IF w > NumWoredas THEN <<>> ELSE MergeLeft(d_b, w) \o MergeAll(d_b, w + 1)

\* AttackRate with the guard of line 309 made >= 0
AttackRateLax(cases, susceptible) ==
    Where(FloatTimes(FloatDiv(cases, susceptible), Percent),
          Greater(susceptible, Num(0)) \/ susceptible = Num(0), Num(0))

\* lines 307-309
AttackRate(cases, susceptible) ==
    Where(FloatTimes(FloatDiv(cases, susceptible), Percent),
          Greater(susceptible, Num(0)), Num(0))

\* Cfr with the guard of line 313 made >= 0
CfrLax(deaths, cases) ==
    Where(FloatTimes(FloatDiv(deaths, cases), Percent),
          Greater(cases, Num(0)) \/ cases = Num(0), Num(0))

\* lines 311-313
Cfr(deaths, cases) ==
    Where(FloatTimes(FloatDiv(deaths, cases), Percent),
          Greater(cases, Num(0)), Num(0))

\* lines 307-316 for one merged row
RatesRow(r) ==
    [woreda_code |-> r.woreda_code,
     disease_name |-> r.disease_name,
     total_susceptible |-> r.total_susceptible,
     total_cases |-> FillNa(r.total_cases, Num(0)),
     total_deaths |-> FillNa(r.total_deaths, Num(0)),
     attack_rate_percent |->
        FillNa(AttackRate(r.total_cases, r.total_susceptible), Num(0)),
     cfr_percent |-> FillNa(Cfr(r.total_deaths, r.total_cases), Num(0))]

DashboardCols ==
    {"woreda_code", "disease_name", "total_susceptible", "total_cases",
     "total_deaths", "attack_rate_percent", "cfr_percent"}

\* the table of lines 303-316
BuildDashboard(d_b) ==
    LET merged == MergeAll(d_b, 1)
        rows == [i \in 1..Len(merged) |-> RatesRow(merged[i])]
    IN [n |-> Len(rows),
        data |-> [c \in DashboardCols |-> [i \in 1..Len(rows) |-> rows[i][c]]]]

FaultChoices == {"none", "no_connection", "read_error"}

RatesInit ==
    /\ \E o \in SeqsUpTo(OutbreakRows, MaxOutbreaks) :
          \E c \in SeqsUpTo(CaseRows(Len(o)), MaxCaseRows) :
              db = [outbreaks |-> o, outbreak_cases |-> c]
    /\ dashboard_gdf = EmptyTable
    /\ dash_status = "none"
    /\ dash_fault = "none"
    /\ built_gdf = EmptyTable
    /\ gdf = EmptyTable
    /\ lisa_arg = [gdf |-> EmptyTable, attribute_column |-> ""]
    /\ lisa_gdf = EmptyTable
    /\ lisa_path = "none"
    /\ lisa_warned = FALSE
    /\ lisa_raised = "none"
    /\ lisa_cache = {}
    /\ lisa_calls = 0
    /\ risk_gdf = EmptyTable
    /\ weights = <<>>
    /\ risk_arg = EmptyTable
    /\ risk_map_gdf = EmptyTable
    /\ risk_warnings = {}
    /\ risk_status = "none"
    /\ cases_df = EmptyTable
    /\ cases_arg = EmptyTable
    /\ costs = NoCosts
    /\ scenario_in = NoScenarioIn
    /\ scenario = NoScenario
    /\ cost_cache = {}
    /\ econ_last = "none"
    /\ econ_calls = 0
    /\ twice_op = "none"
    /\ twice_obj = EmptyTable
    /\ twice_weights = <<>>
    /\ twice_cache = {}
    /\ twice_out = <<>>
    /\ conn = "unused"
    /\ durable = NoDb
    /\ conn_db = NoDb
    /\ sessions = {}
    /\ calls = <<>>
    /\ ret = NoReturn
    /\ wf_ops = 0
    /\ wf_hist = <<>>
    /\ api_keys = <<>>
    /\ api_data = {}
    /\ api_response = NoResponse
    /\ woredas_n = 0
    /\ risk_file = EmptyTable
    /\ gen_status = "none"
    /\ ews_model = ""
    /\ ews_map = EmptyTable

\* get_dashboard_data(): without a connection (lines 258-260) or when a read
\* raises (lines 328-330) it returns an empty table
GetDashboardData(fault) ==
    /\ dash_status = "none"
    /\ dash_fault' = fault
    /\ IF fault = "none"
       THEN /\ dashboard_gdf' = BuildDashboard(db)
            /\ dash_status' = "ok"
       ELSE /\ dashboard_gdf' = EmptyTable
            /\ dash_status' = "failed"
    /\ UNCHANGED <<db, outsideRates>>

NextRates == \E fault \in FaultChoices : GetDashboardData(fault)

SpecRates == RatesInit /\ [][NextRates]_vars

\* ---------------------------------------------------------------- claims on calculate_lisa
LisaCols == {"lisa_q", "lisa_p", "cluster_type"}
ArgTable == lisa_arg.gdf
ArgColumn == lisa_arg.attribute_column
Returned == lisa_calls > 0

\* every row of df holds v in column c
AllRows(df, c, v) ==
    /\ c \in Columns(df)
    /\ Len(df.data[c]) = df.n
    /\ \A i \in 1..df.n : df.data[c][i] = v

DegenerateInput ==
    \/ ArgTable.n = 0
    \/ ArgColumn \notin Columns(ArgTable)
    \/ \A i, j \in 1..ArgTable.n :
          ArgTable.data[ArgColumn][i] = ArgTable.data[ArgColumn][j]

\* C1: a call on an empty table, with an attribute column the table lacks, or
\* with fewer than 2 distinct attribute values takes the degenerate path (no
\* weights, no permutation test) and returns lisa_q = 0, lisa_p = 1.0 and
\* cluster_type = "Not Significant" in every row.
C1_DegenerateSentinels ==
    (Returned /\ DegenerateInput) =>
        /\ lisa_path = "degenerate"
        /\ lisa_raised = "none"
        /\ lisa_gdf.n = ArgTable.n
        /\ AllRows(lisa_gdf, "lisa_q", 0)
        /\ AllRows(lisa_gdf, "lisa_p", Num(1))
        /\ AllRows(lisa_gdf, "cluster_type", "Not Significant")

\* a call on two or more regions that all hold the same attribute value
C1_Witness ==
    /\ Returned
    /\ ArgTable.n >= 2
    /\ ArgColumn \in Columns(ArgTable)
    /\ NUnique(ArgTable.data[ArgColumn]) = 1
    /\ lisa_path = "degenerate"

\* C2: on the 2x2 grid of the test (total_cases 5, 100, 10, 120) a completed
\* analysis labels region 4 "High-High (Hotspot)".
C2_HotspotLabelled ==
    (/\ Returned
     /\ built_gdf = HotspotFixture
     /\ ArgColumn = "total_cases"
     /\ lisa_path = "ok")
        => lisa_gdf.data["cluster_type"][4] = "High-High (Hotspot)"

QuadrantName(q) ==
    CASE q = 1 -> "High-High (Hotspot)"
      [] q = 2 -> "Low-High (Doughnut)"
      [] q = 3 -> "Low-Low (Coldspot)"
      [] q = 4 -> "High-Low (Diamond)"

\* p <= 0.05, p a pair <<numerator, denominator>>
AtMostAlpha(p) == p[1] * AlphaDen <= AlphaNum * p[2]

\* C3: after a completed analysis a row's cluster_type is the name of its
\* quadrant exactly when its p-value is <= 0.05, and is "Not Significant"
\* whenever p > 0.05.
C3_LabelIffSignificant ==
    lisa_path = "ok" =>
        \A i \in 1..lisa_gdf.n :
            LET q == lisa_gdf.data["lisa_q"][i]
                p == lisa_gdf.data["lisa_p"][i]
                label == lisa_gdf.data["cluster_type"][i]
            IN /\ q \in 1..4
               /\ (label = QuadrantName(q)) <=> AtMostAlpha(p)
               /\ ~AtMostAlpha(p) => label = "Not Significant"

\* one row with p = 0.05 exactly, labelled by its quadrant, and one above 0.05
C3_Witness ==
    /\ lisa_path = "ok"
    /\ \E i, j \in 1..lisa_gdf.n :
          /\ lisa_gdf.data["lisa_p"][i] = Rat(AlphaNum, AlphaDen)
          /\ lisa_gdf.data["cluster_type"][i] = QuadrantName(lisa_gdf.data["lisa_q"][i])
          /\ ~AtMostAlpha(lisa_gdf.data["lisa_p"][j])
          /\ lisa_gdf.data["cluster_type"][j] = "Not Significant"

\* n times the deviation of row i from the mean of the attribute column
OwnDeviation(i) ==
    ArgTable.n * ArgTable.data[ArgColumn][i] - SumSeq(ArgTable.data[ArgColumn])

Neighbours(i) ==
    {j \in 1..ArgTable.n :
        Touches(ArgTable.data["geometry"][i], ArgTable.data["geometry"][j])}

\* n times the sum of the neighbours' deviations: the sign of their average
\* deviation, 0 without neighbours
NeighbourDeviation(i) ==
    SumOver([j \in 1..ArgTable.n |-> OwnDeviation(j)], Neighbours(i))

SameColumn(a, b, c) ==
    /\ (c \in Columns(a)) <=> (c \in Columns(b))
    /\ c \in Columns(a) => a.data[c] = b.data[c]

\* C5: when the weight construction or the Local Moran computation raises,
\* the call still returns: it warns, sets cluster_type = "Analysis Error" in
\* every row and leaves lisa_q and lisa_p as they were before the call.
C5_ErrorCaught ==
    /\ lisa_raised # "none" => lisa_path = "error"
    /\ lisa_path = "error" =>
          /\ lisa_warned
          /\ lisa_gdf.n = ArgTable.n
          /\ AllRows(lisa_gdf, "cluster_type", "Analysis Error")
          /\ SameColumn(lisa_gdf, ArgTable, "lisa_q")
          /\ SameColumn(lisa_gdf, ArgTable, "lisa_p")

\* a failing call on a table that holds the lisa_q of an earlier analysis
C5_Witness ==
    /\ lisa_raised # "none"
    /\ lisa_path = "error"
    /\ "lisa_q" \in Columns(ArgTable)
    /\ \E i \in 1..ArgTable.n : ArgTable.data["lisa_q"][i] \in 1..4

\* C6: every returned table has the columns cluster_type, lisa_q and lisa_p,
\* each with a value in every row.
C6_ColumnsPresent ==
    Returned =>
        \A c \in LisaCols : c \in Columns(lisa_gdf) /\ Len(lisa_gdf.data[c]) = lisa_gdf.n

\* ---------------------------------------------------------------- claims on get_dashboard_data
DashRows == 1..dashboard_gdf.n
Col(c, i) == dashboard_gdf.data[c][i]

\* x = (a / b) * 100 for finite a, b with b > 0
IsPercentOf(x, a, b) ==
    /\ x[2] > 0
    /\ x[1] * (a[2] * b[1]) = (Percent * a[1] * b[2]) * x[2]

Positive(x) == x[2] = 1 /\ x[1] > 0

\* C7: in every row attack_rate_percent = total_cases / total_susceptible * 100
\* when total_susceptible > 0 and is 0 otherwise; a zero or missing denominator
\* makes the call neither fail nor return a non-number.
C7_AttackRate ==
    /\ (dash_status # "none" /\ dash_fault = "none") => dash_status = "ok"
    /\ dash_status = "ok" =>
          \A i \in DashRows :
              IF Positive(Col("total_susceptible", i))
              THEN IsPercentOf(Col("attack_rate_percent", i), Col("total_cases", i),
                               Col("total_susceptible", i))
              ELSE Col("attack_rate_percent", i) = Num(0)

\* a row with susceptible 0 and cases > 0, a row with a rate of 100 and a row
\* with a missing susceptible count
C7_Witness ==
    /\ dash_status = "ok"
    /\ \E i, j \in DashRows :
          /\ Col("total_susceptible", i) = Num(0)
          /\ Positive(Col("total_cases", i))
          /\ Col("attack_rate_percent", i) = Num(0)
          /\ Positive(Col("total_susceptible", j))
          /\ Col("attack_rate_percent", j) = Num(Percent)
    /\ \E k \in DashRows : IsNaN(Col("total_susceptible", k))

\* C8: in every row cfr_percent = total_deaths / total_cases * 100 when
\* total_cases > 0 and is 0 otherwise; a zero or missing denominator makes the
\* call neither fail nor return a non-number.
C8_Cfr ==
    /\ (dash_status # "none" /\ dash_fault = "none") => dash_status = "ok"
    /\ dash_status = "ok" =>
          \A i \in DashRows :
              IF Positive(Col("total_cases", i))
              THEN IsPercentOf(Col("cfr_percent", i), Col("total_deaths", i),
                               Col("total_cases", i))
              ELSE Col("cfr_percent", i) = Num(0)

\* a row with cases 0 and deaths > 0, and a row with a rate of 100
C8_Witness ==
    /\ dash_status = "ok"
    /\ \E i, j \in DashRows :
          /\ Col("total_cases", i) = Num(0)
          /\ Positive(Col("total_deaths", i))
          /\ Col("cfr_percent", i) = Num(0)
          /\ Positive(Col("total_cases", j))
          /\ Col("cfr_percent", j) = Num(Percent)

\* 0 <= x <= 100
InPercentRange(x) == x[2] > 0 /\ x[1] >= 0 /\ x[1] <= Percent * x[2]

\* C9 as stated: both rates of every row lie in [0, 100].
C9_RatesInRange ==
    dash_status = "ok" =>
        \A i \in DashRows :
            /\ InPercentRange(Col("attack_rate_percent", i))
            /\ InPercentRange(Col("cfr_percent", i))

\* a <= b on finite numbers
AtMost(a, b) == a[2] > 0 /\ b[2] > 0 /\ a[1] * b[2] <= b[1] * a[2]

\* C9 (amended): both rates are numbers >= 0; attack_rate_percent <= 100 in
\* every row with total_cases <= total_susceptible, and cfr_percent <= 100 in
\* every row with total_deaths <= total_cases.
C9_RatesInRangeWhenCountsOrdered ==
    dash_status = "ok" =>
        \A i \in DashRows :
            LET ar == Col("attack_rate_percent", i)
                cfr == Col("cfr_percent", i)
            IN /\ ar[2] > 0 /\ ar[1] >= 0
               /\ cfr[2] > 0 /\ cfr[1] >= 0
               /\ AtMost(Col("total_cases", i), Col("total_susceptible", i))
                    => InPercentRange(ar)
               /\ AtMost(Col("total_deaths", i), Col("total_cases", i))
                    => InPercentRange(cfr)

\* a row with 0 < deaths <= cases <= susceptible and rates of 50 and 100
C9_Witness ==
    /\ dash_status = "ok"
    /\ \E i \in DashRows :
          /\ Positive(Col("total_deaths", i))
          /\ AtMost(Col("total_deaths", i), Col("total_cases", i))
          /\ AtMost(Col("total_cases", i), Col("total_susceptible", i))
          /\ Col("attack_rate_percent", i) = Num(50)
          /\ Col("cfr_percent", i) = Num(Percent)

\* region w has a case aggregate: an outbreak_cases row of an outbreak of the
\* region that has a disease and is Completed or Confirmed
HasAggregate(w) ==
    \E i \in 1..Len(db.outbreak_cases) :
        LET o == db.outbreaks[db.outbreak_cases[i].outbreak_id]
        IN /\ o.woreda_code = w
           /\ o.disease_code \in Diseases
           /\ o.status \in {"Completed", "Confirmed"}

\* C10: every region has a row in the returned table; a region without a case
\* aggregate has total_cases, total_deaths, attack_rate_percent and
\* cfr_percent equal to the number 0.
C10_EveryRegionListed ==
    dash_status = "ok" =>
        \A w \in Woredas :
            /\ \E i \in DashRows : Col("woreda_code", i) = w
            /\ ~HasAggregate(w) =>
                  \A i \in DashRows :
                      Col("woreda_code", i) = w =>
                          /\ Col("total_cases", i) = Num(0)
                          /\ Col("total_deaths", i) = Num(0)
                          /\ Col("attack_rate_percent", i) = Num(0)
                          /\ Col("cfr_percent", i) = Num(0)

\* a region without aggregate listed beside a region with one; the region
\* without aggregate has outbreaks, but none that the dashboard counts
C10_Witness ==
    /\ dash_status = "ok"
    /\ \E w, v \in Woredas :
          /\ ~HasAggregate(w)
          /\ \E k \in 1..Len(db.outbreaks) : db.outbreaks[k].woreda_code = w
          /\ HasAggregate(v)
          /\ \E i \in DashRows : Col("woreda_code", i) = w /\ Col("total_cases", i) = Num(0)
          /\ \E i \in DashRows : Col("woreda_code", i) = v /\ Positive(Col("total_cases", i))

\* ---------------------------------------------------------------- float arithmetic
\* a + b (the operands are finite or NaN, or +inf)
FloatAdd(a, b) ==
    IF IsNaN(a) \/ IsNaN(b) THEN NaN
    ELSE IF a = Inf \/ b = Inf THEN Inf
    ELSE LET l == (a[2] * b[2]) \div Gcd(a[2], b[2])
         IN Rat(a[1] * (l \div a[2]) + b[1] * (l \div b[2]), l)

\* a * b; inf * 0 is NaN
FloatMul(a, b) ==
    IF IsNaN(a) \/ IsNaN(b) THEN NaN
    ELSE IF a = Inf \/ b = Inf
    THEN (IF a = Num(0) \/ b = Num(0) THEN NaN ELSE Inf)
    ELSE LET g1 == Gcd(Abs(a[1]), b[2])
             g2 == Gcd(Abs(b[1]), a[2])
         IN Rat((a[1] \div g1) * (b[1] \div g2), (a[2] \div g2) * (b[2] \div g1))

\* a - b
FloatSub(a, b) == FloatAdd(a, FloatMul(Num(-1), b))

\* ---------------------------------------------------------------- calculate_weighted_risk
MaxRiskRegions == 2
LayerSteps == 1
WeightSteps == 2

\* the factors of the page's weight models, in the order the page inserts them
FactorOrder ==
    <<"cattle_density", "proximity_to_market", "proximity_to_road", "rainfall_anomaly",
      "vegetation_index">>

\* the factors the layer tables and weights of RiskInit are drawn over
Factors == {"cattle_density", "proximity_to_market", "rainfall_anomaly"}

\* weights_dict.items(), in insertion order
WeightItems(w) == SelectSeq(FactorOrder, LAMBDA f : f \in DOMAIN w)

\* lines 38-45 for row i: the running total after the factors in items, from acc
RECURSIVE Accumulate(_, _, _, _, _)
Accumulate(df, w, items, i, acc) ==
    IF items = <<>> THEN acc
    ELSE LET factor == Head(items)
         IN Accumulate(df, w, Tail(items), i,
                IF factor \in Columns(df)
                THEN FloatAdd(acc, FloatMul(df.data[factor][i], w[factor]))
                ELSE acc)

\* line 45: the factors the loop warns about
RiskWarnings(df, w) == {factor \in DOMAIN w : factor \notin Columns(df)}

\* line 48: sum(weights_dict.values())
RECURSIVE SumWeights(_, _)
SumWeights(w, items) ==
    IF items = <<>> THEN Num(0)
    ELSE FloatAdd(w[Head(items)], SumWeights(w, Tail(items)))

TotalWeight(w) == SumWeights(w, WeightItems(w))

\* Normalize without the guard of line 49
NormalizeUnguarded(score, total_weight) == FloatDiv(score, total_weight)

\* Normalize left out
NormalizeSkipped(score, total_weight) == score

\* lines 49-50
Normalize(score, total_weight) ==
    IF Greater(total_weight, Num(0)) THEN FloatDiv(score, total_weight) ELSE score

\* RiskTarget without the copy of line 32
RiskTargetNoCopy(df) == "input"

\* the object the function writes to and returns: the caller's table itself
\* (line 29) or a copy of it (line 32)
RiskTarget(df) == IF IsEmpty(df) THEN "input" ELSE "copy"

\* WeightedRiskBody without the reset of line 35: the weighted layers are added
\* to the final_risk_score column the table already has
WeightedRiskBodyNoReset(df, w) ==
    IF IsEmpty(df)
    THEN [gdf |-> df, warnings |-> {}]
    ELSE LET g0 == IF "final_risk_score" \in Columns(df) THEN df
                   ELSE SetScalar(df, "final_risk_score", Num(0))
             score == [i \in 1..df.n |->
                          Normalize(Accumulate(g0, w, WeightItems(w), i,
                                               g0.data["final_risk_score"][i]),
                                    TotalWeight(w))]
         IN [gdf |-> SetColumn(g0, "final_risk_score", score),
             warnings |-> RiskWarnings(g0, w)]

\* lines 28-52: the returned table and the warnings
WeightedRiskBody(df, w) ==
    IF IsEmpty(df)
    THEN [gdf |-> df, warnings |-> {}]
    ELSE LET g0 == SetScalar(df, "final_risk_score", Num(0))
             score == [i \in 1..df.n |->
                          Normalize(Accumulate(g0, w, WeightItems(w), i,
                                               g0.data["final_risk_score"][i]),
                                    TotalWeight(w))]
         IN [gdf |-> SetColumn(g0, "final_risk_score", score),
             warnings |-> RiskWarnings(g0, w)]

\* layer values: -1 (rainfall_anomaly is drawn from [-1, 1]) and a grid on [0, 1]
LayerValues == {Num(-1)} \cup {Rat(k, LayerSteps) : k \in 0..LayerSteps}

\* weights: a grid on [0, 1], the range of the page's sliders
WeightValues == {Rat(k, WeightSteps) : k \in 0..WeightSteps}

\* a layer table: woreda_code and the factor columns in layers
LayerTable(n, layers) ==
    [n |-> n,
     data |-> [c \in {"woreda_code"} \cup DOMAIN layers |->
                  IF c = "woreda_code" THEN [i \in 1..n |-> i] ELSE layers[c]]]

RiskInit ==
    /\ \E n \in 0..MaxRiskRegions, present \in SUBSET Factors, named \in SUBSET Factors :
          \E layers \in [present -> [1..n -> LayerValues]],
             w \in [named -> WeightValues] :
              /\ risk_gdf = LayerTable(n, layers)
              /\ weights = w
    /\ risk_arg = EmptyTable
    /\ risk_map_gdf = EmptyTable
    /\ risk_warnings = {}
    /\ risk_status = "none"
    /\ built_gdf = EmptyTable
    /\ gdf = EmptyTable
    /\ lisa_arg = [gdf |-> EmptyTable, attribute_column |-> ""]
    /\ lisa_gdf = EmptyTable
    /\ lisa_path = "none"
    /\ lisa_warned = FALSE
    /\ lisa_raised = "none"
    /\ lisa_cache = {}
    /\ lisa_calls = 0
    /\ db = [outbreaks |-> <<>>, outbreak_cases |-> <<>>]
    /\ dashboard_gdf = EmptyTable
    /\ dash_status = "none"
    /\ dash_fault = "none"
    /\ cases_df = EmptyTable
    /\ cases_arg = EmptyTable
    /\ costs = NoCosts
    /\ scenario_in = NoScenarioIn
    /\ scenario = NoScenario
    /\ cost_cache = {}
    /\ econ_last = "none"
    /\ econ_calls = 0
    /\ twice_op = "none"
    /\ twice_obj = EmptyTable
    /\ twice_weights = <<>>
    /\ twice_cache = {}
    /\ twice_out = <<>>
    /\ conn = "unused"
    /\ durable = NoDb
    /\ conn_db = NoDb
    /\ sessions = {}
    /\ calls = <<>>
    /\ ret = NoReturn
    /\ wf_ops = 0
    /\ wf_hist = <<>>
    /\ api_keys = <<>>
    /\ api_data = {}
    /\ api_response = NoResponse
    /\ woredas_n = 0
    /\ risk_file = EmptyTable
    /\ gen_status = "none"
    /\ ews_model = ""
    /\ ews_map = EmptyTable

\* risk_map_gdf = rm.calculate_weighted_risk(risk_gdf, weights)
CalculateWeightedRisk ==
    LET r == WeightedRiskBody(risk_gdf, weights)
    IN /\ risk_status = "none"
       /\ risk_status' = "done"
       /\ risk_arg' = risk_gdf
       /\ risk_map_gdf' = r.gdf
       /\ risk_warnings' = r.warnings
       /\ risk_gdf' = IF RiskTarget(risk_gdf) = "input" THEN r.gdf ELSE risk_gdf
       /\ UNCHANGED <<weights, outsideRisk>>

NextRisk == CalculateWeightedRisk

SpecRisk == RiskInit /\ [][NextRisk]_vars

\* ---------------------------------------------------------------- claims on calculate_weighted_risk
RiskDone == risk_status = "done"
RiskRows == 1..risk_map_gdf.n
Score(i) == risk_map_gdf.data["final_risk_score"][i]

\* the factors present in both the weight mapping and the layer table
Applied == DOMAIN weights \cap Columns(risk_arg)

\* the sum of f over the set S
RECURSIVE SumOf(_, _)
SumOf(f, S) ==
    IF S = {} THEN Num(0)
    ELSE LET x == CHOOSE x \in S : TRUE
         IN FloatAdd(f[x], SumOf(f, S \ {x}))

WeightedTotal(i) ==
    SumOf([f \in Applied |-> FloatMul(risk_arg.data[f][i], weights[f])], Applied)
AppliedWeight == SumOf([f \in Applied |-> weights[f]], Applied)

\* C11: every region's final_risk_score is the sum of layer value * weight over
\* the factors present in both the weight mapping and the layer table,
\* divided by the sum of the weights of those factors only.
C11_DividedByAppliedWeights ==
    (RiskDone /\ risk_arg.n > 0 /\ Greater(AppliedWeight, Num(0))) =>
        \A i \in RiskRows : Score(i) = FloatDiv(WeightedTotal(i), AppliedWeight)

AllWeightsZero == \A f \in DOMAIN weights : weights[f] = Num(0)

\* C12: the call always returns; on a table with rows it warns about exactly
\* the factors of the mapping the table lacks, and when no factor of the
\* mapping is in the table, or all weights are zero, every region's
\* final_risk_score is the number 0 (not NaN).
C12_ZeroScoreWithoutFactors ==
    (RiskDone /\ risk_arg.n > 0) =>
        /\ risk_warnings = DOMAIN weights \ Columns(risk_arg)
        /\ (Applied = {} \/ AllWeightsZero) =>
              /\ "final_risk_score" \in Columns(risk_map_gdf)
              /\ \A i \in RiskRows : Score(i) = Num(0)

\* two regions with nonzero layer values, scored with a mapping whose only
\* factor (of positive weight) is missing from the table
C12_Witness ==
    /\ RiskDone
    /\ risk_arg.n = 2
    /\ Applied = {}
    /\ \E f \in DOMAIN weights : Greater(weights[f], Num(0)) /\ f \in risk_warnings
    /\ \E f \in Columns(risk_arg) \cap Factors :
          \A i \in 1..risk_arg.n : Greater(risk_arg.data[f][i], Num(0))
    /\ \A i \in RiskRows : Score(i) = Num(0)

\* 0 <= x <= 1
InUnitInterval(x) ==
    /\ ~IsNaN(x) /\ x # Inf
    /\ x[1] >= 0
    /\ x[1] <= x[2]

LayersNormalized ==
    \A f \in Columns(risk_arg) \cap Factors :
        \A i \in 1..risk_arg.n : InUnitInterval(risk_arg.data[f][i])

\* C13: when every layer value is in [0, 1], every weight is >= 0 and the
\* mapping names only factors of the table, every final_risk_score is in [0, 1].
C13_ScoreInUnitInterval ==
    (/\ RiskDone
     /\ risk_arg.n > 0
     /\ LayersNormalized
     /\ \A f \in DOMAIN weights : ~Greater(Num(0), weights[f])
     /\ DOMAIN weights \subseteq Columns(risk_arg))
        => \A i \in RiskRows : InUnitInterval(Score(i))

\* two weighted factors; one region scores 1, the other strictly between 0 and 1
C13_Witness ==
    /\ RiskDone
    /\ LayersNormalized
    /\ DOMAIN weights \subseteq Columns(risk_arg)
    /\ Cardinality({f \in DOMAIN weights : Greater(weights[f], Num(0))}) >= 2
    /\ \E i, j \in RiskRows :
          /\ Score(i) = Num(1)
          /\ Greater(Score(j), Num(0))
          /\ Greater(Num(1), Score(j))

\* C14: the call leaves the table it is given as it was, without a
\* final_risk_score column; a non-empty table's scores are in the returned
\* table only.
C14_InputUnaltered ==
    RiskDone =>
        /\ risk_gdf = risk_arg
        /\ "final_risk_score" \notin Columns(risk_gdf)
        /\ risk_arg.n > 0 => "final_risk_score" \in Columns(risk_map_gdf)

\* a call that scored two regions with a factor of the table
C14_Witness ==
    /\ RiskDone
    /\ risk_arg.n = 2
    /\ Applied # {}
    /\ \E i \in RiskRows : Greater(Score(i), Num(0))
    /\ risk_gdf = risk_arg
    /\ risk_map_gdf # risk_gdf

\* ---------------------------------------------------------------- economics parameters
MaxEconRows == 2
MaxEconCount == 2
MaxEconCalls == 2

ParameterKeys == {"Cattle", "Sheep", "Goats", "Camels", "Poultry", "Default"}

ANIMAL_MARKET_VALUES ==
    [s \in ParameterKeys |->
        CASE s = "Cattle" -> 30000
          [] s = "Sheep" -> 4000
          [] s = "Goats" -> 3500
          [] s = "Camels" -> 60000
          [] s = "Poultry" -> 250
          [] s = "Default" -> 10000]

DAILY_MORBIDITY_LOSS ==
    [s \in ParameterKeys |->
        CASE s = "Cattle" -> 150
          [] s = "Sheep" -> 20
          [] s = "Goats" -> 18
          [] s = "Camels" -> 200
          [] s = "Poultry" -> 5
          [] s = "Default" -> 50]

AVG_DISEASE_DURATION_DAYS == 21

\* ---------------------------------------------------------------- calculate_direct_outbreak_cost
\* Series.map(dict) for one value: NaN for a key that is not in the dict
MapDict(dict, key) == IF key \in DOMAIN dict THEN Num(dict[key]) ELSE NaN

\* Series.sum(): NaN entries are skipped, the sum of no entries is 0
RECURSIVE SeriesSum(_)
SeriesSum(seq) ==
    IF seq = <<>> THEN Num(0)
    ELSE IF IsNaN(Head(seq)) THEN SeriesSum(Tail(seq))
    ELSE FloatAdd(Head(seq), SeriesSum(Tail(seq)))

\* AnimalValue without the fillna of line 47
AnimalValueNoDefault(species) == MapDict(ANIMAL_MARKET_VALUES, species)

\* line 47 for one row
AnimalValue(species) ==
    FillNa(MapDict(ANIMAL_MARKET_VALUES, species), Num(ANIMAL_MARKET_VALUES["Default"]))

\* line 51 for one row
DailyLossValue(species) ==
    FillNa(MapDict(DAILY_MORBIDITY_LOSS, species), Num(DAILY_MORBIDITY_LOSS["Default"]))

\* MorbidityLoss for a single day
MorbidityLossOneDay(cases, daily_loss_value) == FloatMul(cases, daily_loss_value)

\* line 52 for one row
MorbidityLoss(cases, daily_loss_value) ==
    FloatMul(FloatMul(cases, daily_loss_value), Num(AVG_DISEASE_DURATION_DAYS))

\* TotalCost without the morbidity cost
TotalCostMortalityOnly(mortality_cost, morbidity_cost) == mortality_cost

\* line 54
TotalCost(mortality_cost, morbidity_cost) == FloatAdd(mortality_cost, morbidity_cost)

\* lines 43-60: the returned dict, and the argument table as the body leaves it
\* (lines 47 and 51 add two columns to it)
DirectCostBody(df) ==
    IF IsEmpty(df)
    THEN [df |-> df,
          result |-> [total_cost |-> Num(0), mortality_cost |-> Num(0),
                      morbidity_cost |-> Num(0)]]
    ELSE LET d1 == SetColumn(df, "animal_value",
                     [i \in 1..df.n |-> AnimalValue(df.data["species"][i])])
             mortality_cost ==
                 SeriesSum([i \in 1..df.n |->
                     FloatMul(d1.data["deaths"][i], d1.data["animal_value"][i])])
             d2 == SetColumn(d1, "daily_loss_value",
                     [i \in 1..df.n |-> DailyLossValue(d1.data["species"][i])])
             morbidity_cost ==
                 SeriesSum([i \in 1..df.n |->
                     MorbidityLoss(d2.data["cases"][i], d2.data["daily_loss_value"][i])])
         IN [df |-> d2,
             result |-> [total_cost |-> TotalCost(mortality_cost, morbidity_cost),
                         mortality_cost |-> mortality_cost,
                         morbidity_cost |-> morbidity_cost]]

\* calculate_direct_outbreak_cost(df) behind @st.cache_data (line 31): a call
\* with a table equal to that of an earlier call returns the stored dict
\* without running the body; any other call runs the body and stores its dict
\* under the table as it was passed.
CachedDirectCost(cache, df) ==
    LET hits == {e \in cache : e.key = df}
    IN IF hits # {}
       THEN [df |-> df, result |-> (CHOOSE e \in hits : TRUE).value, cache |-> cache]
       ELSE LET r == DirectCostBody(df)
            IN [df |-> r.df, result |-> r.result,
                cache |-> cache \cup {[key |-> df, value |-> r.result]}]

\* ---------------------------------------------------------------- run_cost_benefit_scenario
\* the species of the model, in the order a caller's dict names them
SpeciesOrder == <<"Cattle", "Sheep", "Goats", "Camels", "Poultry", "Equine">>
Species == {SpeciesOrder[k] : k \in DOMAIN SpeciesOrder}

\* projected_species_distribution.items(), in insertion order
DistItems(dist) == SelectSeq(SpeciesOrder, LAMBDA s : s \in DOMAIN dist)

\* pd.DataFrame(rows) of rows with species, cases and deaths; no rows give a
\* table without columns
FrameOf(species, cases, deaths) ==
    IF species = <<>> THEN EmptyTable
    ELSE [n |-> Len(species),
          data |-> [c \in {"species", "cases", "deaths"} |->
                       CASE c = "species" -> species
                         [] c = "cases" -> cases
                         [] c = "deaths" -> deaths]]

\* NoActionFrame with every species given the whole projection
NoActionFrameUnsplit(projected_cases, projected_deaths, dist) ==
    LET items == DistItems(dist)
    IN FrameOf(items,
               [k \in DOMAIN items |-> Num(projected_cases)],
               [k \in DOMAIN items |-> Num(projected_deaths)])

\* lines 80-87
NoActionFrame(projected_cases, projected_deaths, dist) ==
    LET items == DistItems(dist)
    IN FrameOf(items,
               [k \in DOMAIN items |-> FloatMul(Num(projected_cases), dist[items[k]])],
               [k \in DOMAIN items |-> FloatMul(Num(projected_deaths), dist[items[k]])])

\* ResidualFactor as the share that is prevented
ResidualFactorPrevented(effectiveness_factor) == effectiveness_factor

\* (1 - effectiveness_factor) of lines 101-102
ResidualFactor(effectiveness_factor) == FloatSub(Num(1), effectiveness_factor)

\* lines 98-105
WithInterventionFrame(projected_cases, projected_deaths, dist, effectiveness_factor) ==
    LET items == DistItems(dist)
    IN FrameOf(items,
               [k \in DOMAIN items |->
                   FloatMul(FloatMul(Num(projected_cases), dist[items[k]]),
                            ResidualFactor(effectiveness_factor))],
               [k \in DOMAIN items |->
                   FloatMul(FloatMul(Num(projected_deaths), dist[items[k]]),
                            ResidualFactor(effectiveness_factor))])

\* NetBenefit without the cost of the program
NetBenefitGross(benefits_averted_cost, intervention_cost) == benefits_averted_cost

\* line 116
NetBenefit(benefits_averted_cost, intervention_cost) ==
    FloatSub(benefits_averted_cost, Num(intervention_cost))

\* Roi without the guard of line 119
RoiUnguarded(net_benefit, intervention_cost) ==
    FloatMul(FloatDiv(net_benefit, Num(intervention_cost)), Num(Percent))

\* line 119
Roi(net_benefit, intervention_cost) ==
    IF intervention_cost > 0
    THEN FloatMul(FloatDiv(net_benefit, Num(intervention_cost)), Num(Percent))
    ELSE Num(0)

\* lines 79-127: the returned dict and the cache of calculate_direct_outbreak_cost
\* after the two calls of lines 90 and 107
ScenarioBody(in, cache) ==
    LET no_action == CachedDirectCost(cache,
            NoActionFrame(in.projected_cases, in.projected_deaths,
                          in.projected_species_distribution))
        cost_no_action == no_action.result.total_cost
        effectiveness_factor == Rat(in.intervention_effectiveness_percent, Percent)
        with_intervention == CachedDirectCost(no_action.cache,
            WithInterventionFrame(in.projected_cases, in.projected_deaths,
                                  in.projected_species_distribution,
                                  effectiveness_factor))
        cost_with_intervention_disease == with_intervention.result.total_cost
        total_cost_with_intervention ==
            FloatAdd(Num(in.intervention_cost), cost_with_intervention_disease)
        benefits_averted_cost == FloatSub(cost_no_action, cost_with_intervention_disease)
        net_benefit == NetBenefit(benefits_averted_cost, in.intervention_cost)
    IN [result |-> [cost_no_action |-> cost_no_action,
                    cost_with_intervention |-> total_cost_with_intervention,
                    benefits_averted_cost |-> benefits_averted_cost,
                    net_benefit |-> net_benefit,
                    roi_percent |-> Roi(net_benefit, in.intervention_cost)],
        cache |-> with_intervention.cache]

\* ---------------------------------------------------------------- inputs of the economics page
\* rows of outbreak_cases: counts as the investigation form stores them
CaseFrames ==
    UNION {{FrameOf(s, [k \in 1..m |-> Num(c[k])], [k \in 1..m |-> Num(d[k])]) :
               s \in [1..m -> Species], c \in [1..m -> 0..MaxEconCount],
               d \in [1..m -> 0..MaxEconCount]} : m \in 1..MaxEconRows}

\* a query result without rows
NoRows == [n |-> 0, data |-> [c \in {"species", "cases", "deaths"} |-> <<>>]]

ProjectedCases == {0, 1, 1000}
ProjectedDeaths == {0, 1, 100}
Proportions == {Num(0), Rat(1, 2), Num(1)}
DistSpecies == {"Cattle", "Sheep", "Equine"}
InterventionCosts == {0, 1000, 1000000}
Effectiveness == {0, 50, 90, 100}

\* The page either costs the case table of an outbreak (tab 1) or runs a
\* scenario (tab 2).
EconInit ==
    /\ \/ /\ cases_df \in CaseFrames \cup {NoRows, EmptyTable}
          /\ scenario_in = NoScenarioIn
       \/ /\ cases_df = EmptyTable
          /\ \E pc \in ProjectedCases, pd \in ProjectedDeaths, ic \in InterventionCosts,
                ef \in Effectiveness, named \in SUBSET DistSpecies :
                \E dist \in [named -> Proportions] :
                    scenario_in =
                        [projected_cases |-> pc, projected_deaths |-> pd,
                         projected_species_distribution |-> dist,
                         intervention_cost |-> ic,
                         intervention_effectiveness_percent |-> ef]
    /\ cases_arg = EmptyTable
    /\ costs = NoCosts
    /\ scenario = NoScenario
    /\ cost_cache = {}
    /\ econ_last = "none"
    /\ econ_calls = 0
    /\ risk_gdf = EmptyTable
    /\ weights = <<>>
    /\ risk_arg = EmptyTable
    /\ risk_map_gdf = EmptyTable
    /\ risk_warnings = {}
    /\ risk_status = "none"
    /\ built_gdf = EmptyTable
    /\ gdf = EmptyTable
    /\ lisa_arg = [gdf |-> EmptyTable, attribute_column |-> ""]
    /\ lisa_gdf = EmptyTable
    /\ lisa_path = "none"
    /\ lisa_warned = FALSE
    /\ lisa_raised = "none"
    /\ lisa_cache = {}
    /\ lisa_calls = 0
    /\ db = [outbreaks |-> <<>>, outbreak_cases |-> <<>>]
    /\ dashboard_gdf = EmptyTable
    /\ dash_status = "none"
    /\ dash_fault = "none"
    /\ twice_op = "none"
    /\ twice_obj = EmptyTable
    /\ twice_weights = <<>>
    /\ twice_cache = {}
    /\ twice_out = <<>>
    /\ conn = "unused"
    /\ durable = NoDb
    /\ conn_db = NoDb
    /\ sessions = {}
    /\ calls = <<>>
    /\ ret = NoReturn
    /\ wf_ops = 0
    /\ wf_hist = <<>>
    /\ api_keys = <<>>
    /\ api_data = {}
    /\ api_response = NoResponse
    /\ woredas_n = 0
    /\ risk_file = EmptyTable
    /\ gen_status = "none"
    /\ ews_model = ""
    /\ ews_map = EmptyTable

\* costs = econ.calculate_direct_outbreak_cost(cases_df)
CalculateDirectOutbreakCost ==
    LET r == CachedDirectCost(cost_cache, cases_df)
    IN /\ econ_calls < MaxEconCalls
       /\ econ_calls' = econ_calls + 1
       /\ econ_last' = "cost"
       /\ cases_arg' = cases_df
       /\ cases_df' = r.df
       /\ costs' = r.result
       /\ cost_cache' = r.cache
       /\ UNCHANGED <<scenario_in, scenario, outsideEcon>>

\* scenario = econ.run_cost_benefit_scenario(...)
RunCostBenefitScenario ==
    LET r == ScenarioBody(scenario_in, cost_cache)
    IN /\ econ_calls < MaxEconCalls
       /\ econ_calls' = econ_calls + 1
       /\ econ_last' = "scenario"
       /\ scenario' = r.result
       /\ cost_cache' = r.cache
       /\ UNCHANGED <<cases_df, cases_arg, costs, scenario_in, outsideEcon>>

NextEcon ==
    \/ CalculateDirectOutbreakCost
    \/ RunCostBenefitScenario

SpecEcon == EconInit /\ [][NextEcon]_vars

\* ---------------------------------------------------------------- claims on the cost functions
\* the calls of calculate_direct_outbreak_cost that ran: table passed and dict returned
CostCalls == cost_cache
PageCostCall == econ_last = "cost"
FrameRows(df) == 1..df.n

\* market value and daily production loss of a species
MarketValueOf(s) ==
    CASE s = "Cattle" -> 30000
      [] s = "Sheep" -> 4000
      [] s = "Goats" -> 3500
      [] s = "Camels" -> 60000
      [] s = "Poultry" -> 250
      [] OTHER -> 10000

DailyLossOf(s) ==
    CASE s = "Cattle" -> 150
      [] s = "Sheep" -> 20
      [] s = "Goats" -> 18
      [] s = "Camels" -> 200
      [] s = "Poultry" -> 5
      [] OTHER -> 50

MortalityOf(df) ==
    IF df.n = 0 THEN Num(0)
    ELSE SumOf([i \in FrameRows(df) |->
                   FloatMul(df.data["deaths"][i], Num(MarketValueOf(df.data["species"][i])))],
               FrameRows(df))

MorbidityOf(df) ==
    IF df.n = 0 THEN Num(0)
    ELSE SumOf([i \in FrameRows(df) |->
                   FloatMul(df.data["cases"][i],
                            Num(DailyLossOf(df.data["species"][i]) * 21))],
               FrameRows(df))

\* C15: mortality_cost is the sum over the rows of deaths * market value of the
\* row's species (Cattle 30000, Sheep 4000, Goats 3500, Camels 60000,
\* Poultry 250, any other species 10000), in every call and in the dict the
\* page receives.
C15_MortalityCost ==
    /\ \A call \in CostCalls : call.value.mortality_cost = MortalityOf(call.key)
    /\ PageCostCall => costs.mortality_cost = MortalityOf(cases_arg)

\* the page costs a table of a listed and an unlisted species, with deaths in both rows
C15_Witness ==
    /\ PageCostCall
    /\ cases_arg.n = 2
    /\ cases_arg.data["species"] = <<"Camels", "Equine">>
    /\ cases_arg.data["deaths"] = <<Num(1), Num(2)>>
    /\ costs.mortality_cost = Num(80000)

\* C16: morbidity_cost is the sum over the rows of cases * daily production
\* loss of the row's species (Cattle 150, Sheep 20, Goats 18, Camels 200,
\* Poultry 5, any other species 50) * 21 days, in every call and in the dict
\* the page receives.
C16_MorbidityCost ==
    /\ \A call \in CostCalls : call.value.morbidity_cost = MorbidityOf(call.key)
    /\ PageCostCall => costs.morbidity_cost = MorbidityOf(cases_arg)

\* the page costs a table of a listed and an unlisted species, with cases in both rows
C16_Witness ==
    /\ PageCostCall
    /\ cases_arg.n = 2
    /\ cases_arg.data["species"] = <<"Goats", "Equine">>
    /\ cases_arg.data["cases"] = <<Num(2), Num(1)>>
    /\ costs.morbidity_cost = Num(1806)

ZeroCosts(d) ==
    /\ d.total_cost = Num(0)
    /\ d.mortality_cost = Num(0)
    /\ d.morbidity_cost = Num(0)

\* C17: every call returns total_cost = mortality_cost + morbidity_cost, and a
\* call on a table without rows or without columns returns 0 in all three fields.
C17_TotalCost ==
    /\ \A call \in CostCalls :
          /\ call.value.total_cost =
                FloatAdd(call.value.mortality_cost, call.value.morbidity_cost)
          /\ IsEmpty(call.key) => ZeroCosts(call.value)
    /\ PageCostCall =>
          /\ costs.total_cost = FloatAdd(costs.mortality_cost, costs.morbidity_cost)
          /\ IsEmpty(cases_arg) => ZeroCosts(costs)

\* the page costed a table with both costs positive, and a table without
\* columns was costed as well
C17_Witness ==
    /\ PageCostCall
    /\ Greater(costs.mortality_cost, Num(0))
    /\ Greater(costs.morbidity_cost, Num(0))
    /\ costs.total_cost = Num(30000 + 3150)
    /\ \E call \in CostCalls : call.key = EmptyTable /\ ZeroCosts(call.value)

\* ---------------------------------------------------------------- claims on the scenario
ScenarioDone == econ_last = "scenario"
Dist == scenario_in.projected_species_distribution

\* the direct cost of the share of each species of the projection, scaled by k
DirectCostOfShares(k) ==
    SumOf([s \in DOMAIN Dist |->
              FloatMul(FloatMul(Dist[s], k),
                       Num(scenario_in.projected_deaths * MarketValueOf(s)
                           + scenario_in.projected_cases * DailyLossOf(s) * 21))],
          DOMAIN Dist)

TestScenario ==
    /\ scenario_in.projected_cases = 1000
    /\ scenario_in.projected_deaths = 100
    /\ DOMAIN Dist = {"Cattle"}
    /\ Dist["Cattle"] = Num(1)

\* C18: cost_no_action is the direct cost of the projected cases and deaths
\* split over the species by their proportions, with no reduction; for 1000
\* cases, 100 deaths and {Cattle: 1.0} it is 6,150,000.
C18_CostNoAction ==
    ScenarioDone =>
        /\ scenario.cost_no_action = DirectCostOfShares(Num(1))
        /\ TestScenario => scenario.cost_no_action = Num(6150000)

\* the scenario of the test: 1000 cases, 100 deaths, cattle only, a program of
\* 1,000,000 that is 90 percent effective
TestRun ==
    /\ ScenarioDone
    /\ TestScenario
    /\ scenario_in.intervention_cost = 1000000
    /\ scenario_in.intervention_effectiveness_percent = 90

C18_Witness == TestRun /\ scenario.cost_no_action = Num(6150000)

\* the share of the projection that remains with the intervention
Residual == FloatSub(Num(1), Rat(scenario_in.intervention_effectiveness_percent, 100))

\* C19: cost_with_intervention is intervention_cost plus the direct cost of
\* the residual outbreak, each species' share of the projection times
\* (1 - effectiveness_percent/100); at effectiveness 100 it is
\* intervention_cost, at effectiveness 0 intervention_cost + cost_no_action.
C19_CostWithIntervention ==
    ScenarioDone =>
        /\ scenario.cost_with_intervention =
              FloatAdd(Num(scenario_in.intervention_cost), DirectCostOfShares(Residual))
        /\ scenario_in.intervention_effectiveness_percent = 100 =>
              scenario.cost_with_intervention = Num(scenario_in.intervention_cost)
        /\ scenario_in.intervention_effectiveness_percent = 0 =>
              scenario.cost_with_intervention =
                  FloatAdd(Num(scenario_in.intervention_cost), scenario.cost_no_action)

\* the test's scenario: a tenth of 6,150,000 remains beside the program's cost
C19_Witness == TestRun /\ scenario.cost_with_intervention = Num(1000000 + 615000)

C21_RoiPercent ==
    ScenarioDone =>
        /\ scenario_in.intervention_cost > 0 =>
              scenario.roi_percent =
                  FloatMul(FloatDiv(scenario.net_benefit, Num(scenario_in.intervention_cost)),
                           Num(100))
        /\ scenario_in.intervention_cost = 0 => scenario.roi_percent = Num(0)
        /\ TestRun => scenario.roi_percent = Rat(4535, 10)

\* the test's scenario returns 453.5
C21_Witness == TestRun /\ scenario.roi_percent = Rat(907, 2)

\* ---------------------------------------------------------------- running a computation again
\* Each of the four computations is run on an object and then run again on
\* that same object, as the first run left it.
MaxRuns == 2

\* the merged table of line 303: for every region either the unmatched row or
\* the totals of one disease
MergedRowsOf(w) ==
    {UnmatchedRow(w)} \cup
    {[woreda_code |-> w, disease_name |-> "FMD", total_cases |-> Num(c),
      total_deaths |-> Num(d), total_susceptible |-> Num(s)] :
        c \in 0..(2 * MaxCount), d \in 0..(2 * MaxCount), s \in 0..(2 * MaxCount)}

\* lines 307-316 applied to the rows of a table
RateComputation(rows) == [i \in 1..Len(rows) |-> RatesRow(rows[i])]

\* the rates a run of lines 307-316 leaves in the table
RatesOf(rows) ==
    [i \in 1..Len(rows) |->
        [attack_rate_percent |-> rows[i].attack_rate_percent,
         cfr_percent |-> rows[i].cfr_percent]]

\* the layers of the tables that are scored again: one drawn from [0, 1] and
\* one drawn from [-1, 1]
TwiceFactors == {"cattle_density", "rainfall_anomaly"}

\* the scores of a returned table
ScoresOf(df) ==
    IF "final_risk_score" \in Columns(df) THEN df.data["final_risk_score"] ELSE <<>>

TwiceInit ==
    /\ \/ /\ twice_op = "rates"
          /\ \E rows \in [Woredas -> UNION {MergedRowsOf(w) : w \in Woredas}] :
                /\ \A w \in Woredas : rows[w].woreda_code = w
                /\ twice_obj = rows
          /\ twice_weights = <<>>
       \/ /\ twice_op = "risk"
          /\ \E n \in 0..MaxRiskRegions, present \in SUBSET TwiceFactors,
                named \in SUBSET TwiceFactors :
                \E layers \in [present -> [1..n -> LayerValues]],
                   w \in [named -> WeightValues] :
                    /\ twice_obj = LayerTable(n, layers)
                    /\ twice_weights = w
       \/ /\ twice_op = "cost"
          /\ twice_obj \in CaseFrames \cup {NoRows}
          /\ twice_weights = <<>>
       \/ /\ twice_op = "scenario"
          /\ \E pc \in ProjectedCases, pd \in ProjectedDeaths, ic \in InterventionCosts,
                ef \in Effectiveness, named \in SUBSET DistSpecies :
                \E dist \in [named -> Proportions] :
                    twice_obj =
                        [projected_cases |-> pc, projected_deaths |-> pd,
                         projected_species_distribution |-> dist,
                         intervention_cost |-> ic,
                         intervention_effectiveness_percent |-> ef]
          /\ twice_weights = <<>>
    /\ twice_cache = {}
    /\ twice_out = <<>>
    /\ built_gdf = EmptyTable
    /\ gdf = EmptyTable
    /\ lisa_arg = [gdf |-> EmptyTable, attribute_column |-> ""]
    /\ lisa_gdf = EmptyTable
    /\ lisa_path = "none"
    /\ lisa_warned = FALSE
    /\ lisa_raised = "none"
    /\ lisa_cache = {}
    /\ lisa_calls = 0
    /\ db = [outbreaks |-> <<>>, outbreak_cases |-> <<>>]
    /\ dashboard_gdf = EmptyTable
    /\ dash_status = "none"
    /\ dash_fault = "none"
    /\ risk_gdf = EmptyTable
    /\ weights = <<>>
    /\ risk_arg = EmptyTable
    /\ risk_map_gdf = EmptyTable
    /\ risk_warnings = {}
    /\ risk_status = "none"
    /\ cases_df = EmptyTable
    /\ cases_arg = EmptyTable
    /\ costs = NoCosts
    /\ scenario_in = NoScenarioIn
    /\ scenario = NoScenario
    /\ cost_cache = {}
    /\ econ_last = "none"
    /\ econ_calls = 0
    /\ conn = "unused"
    /\ durable = NoDb
    /\ conn_db = NoDb
    /\ sessions = {}
    /\ calls = <<>>
    /\ ret = NoReturn
    /\ wf_ops = 0
    /\ wf_hist = <<>>
    /\ api_keys = <<>>
    /\ api_data = {}
    /\ api_response = NoResponse
    /\ woredas_n = 0
    /\ risk_file = EmptyTable
    /\ gen_status = "none"
    /\ ews_model = ""
    /\ ews_map = EmptyTable

\* lines 307-316 of get_dashboard_data, which assign the columns of the table
\* in place
RerunRates ==
    /\ twice_op = "rates"
    /\ Len(twice_out) < MaxRuns
    /\ twice_obj' = RateComputation(twice_obj)
    /\ twice_out' = Append(twice_out, RatesOf(RateComputation(twice_obj)))
    /\ UNCHANGED <<twice_op, twice_weights, twice_cache, outsideTwice>>

\* calculate_weighted_risk(gdf, weights); the next run is on the same table or,
\* when on_result, on the table this run returned
RerunRisk(on_result) ==
    LET r == WeightedRiskBody(twice_obj, twice_weights)
    IN /\ twice_op = "risk"
       /\ Len(twice_out) < MaxRuns
       /\ twice_obj' = IF on_result THEN r.gdf ELSE twice_obj
       /\ twice_out' = Append(twice_out, ScoresOf(r.gdf))
       /\ UNCHANGED <<twice_op, twice_weights, twice_cache, outsideTwice>>

\* calculate_direct_outbreak_cost(df) behind st.cache_data
RerunCost ==
    LET r == CachedDirectCost(twice_cache, twice_obj)
    IN /\ twice_op = "cost"
       /\ Len(twice_out) < MaxRuns
       /\ twice_obj' = r.df
       /\ twice_cache' = r.cache
       /\ twice_out' = Append(twice_out, r.result)
       /\ UNCHANGED <<twice_op, twice_weights, outsideTwice>>

\* run_cost_benefit_scenario(...) with the same arguments
RerunScenario ==
    LET r == ScenarioBody(twice_obj, twice_cache)
    IN /\ twice_op = "scenario"
       /\ Len(twice_out) < MaxRuns
       /\ twice_cache' = r.cache
       /\ twice_out' = Append(twice_out, r.result)
       /\ UNCHANGED <<twice_op, twice_obj, twice_weights, outsideTwice>>

NextTwice ==
    \/ RerunRates
    \/ \E on_result \in BOOLEAN : RerunRisk(on_result)
    \/ RerunCost
    \/ RerunScenario

SpecTwice == TwiceInit /\ [][NextTwice]_vars

\* C22: running the rate computation, calculate_weighted_risk,
\* calculate_direct_outbreak_cost or run_cost_benefit_scenario again on the
\* same object, also as the first run left it, returns the rates, scores and
\* costs of the first run.
C22_RerunIdentical ==
    \A i \in DOMAIN twice_out, j \in DOMAIN twice_out : twice_out[i] = twice_out[j]

\* a risk table scored again after the first run wrote a non-zero score to it
C22_Witness ==
    /\ twice_op = "risk"
    /\ Len(twice_out) = 2
    /\ "final_risk_score" \in Columns(twice_obj)
    /\ \E i \in 1..twice_obj.n : Greater(twice_out[1][i], Num(0))

\* C23: calculate_direct_outbreak_cost and calculate_lisa leave the table they
\* are passed as it was: after the call it has the columns and values it had
\* before the call.
C23_ArgumentsUnaltered ==
    /\ PageCostCall => cases_df = cases_arg
    /\ Returned => gdf = ArgTable

\* ---------------------------------------------------------------- database workflow
\* src/core/database.py: every function takes the one connection that
\* get_db_connection caches (st.cache_resource, lines 13-32) and runs its
\* statements in the connection's open transaction. conn.commit() makes
\* everything the connection has executed since the last commit or rollback
\* durable; conn.rollback() discards all of it.
MaxSessions == 2
MaxWfOutbreaks == 2
MaxLineRows == 1
MaxSampleRows == 1
MaxOps == 3

Sessions == 1..MaxSessions

\* a NULL outbreak_id, investigator_name, result
NoOutbreak == 0
NoInvestigator == "NULL"
NoResult == "NULL"

CURRENT_INVESTIGATOR == "Dr. Alemayehu"
Investigators == {CURRENT_INVESTIGATOR, "Test Investigator"}

\* the results a caller submits, and str.lower() on them
LabResults == {"Positive", "positive", "Negative"}

\* Lower without the case folding
LowerUnfolded(result) == result

Lower(result) ==
    CASE result \in {"Positive", "positive"} -> "positive"
      [] result = "Negative" -> "negative"
      [] OTHER -> result

SampleStatusChoices == {"In Transit"}

\* the row INSERT INTO outbreaks stores: no status is given (lines 50-56), so
\* the column default applies, which tests/core/test_database.py (lines 23-36)
\* expects to be 'Unassigned'
NewOutbreak == [status |-> "Unassigned", investigator_name |-> NoInvestigator, form_data |-> 0]

\* the rows of lines 174-178 and 183-187; by is the submission they belong to
NewCase(id, by) == [outbreak_id |-> id, by |-> by]
NewSample(id, by) ==
    [outbreak_id |-> id, status |-> "Collected", result |-> NoResult, by |-> by]

Repeat(x, n) == [i \in 1..n |-> x]

\* ---- the statements each function executes, in order
Stmt(k, id, name, result) == [k |-> k, id |-> id, name |-> name, result |-> result]

CommitStmt == Stmt("commit", 0, "", "")

\* add_new_outbreak_report, lines 44-58
AddStatements(found) ==
    <<Stmt("select_woreda", 0, IF found THEN "found" ELSE "missing", ""),
      Stmt("insert_outbreak", 0, "", ""), CommitStmt>>

\* assign_investigator_to_outbreak, lines 95-98
AssignStatements(id, name) == <<Stmt("assign", id, name, ""), CommitStmt>>

\* submit_full_investigation, lines 161-189
InvestigationStatements(id, lines, samples) ==
    <<Stmt("complete", id, "", "")>> \o Repeat(Stmt("insert_case", id, "", ""), lines)
        \o Repeat(Stmt("insert_sample", id, "", ""), samples) \o <<CommitStmt>>

\* submit_lab_result, lines 431-449
LabStatements(sample, outbreak_id, result) ==
    <<Stmt("sample_result", sample, "", result)>>
        \o (IF Lower(result) = "positive" /\ outbreak_id # NoOutbreak
            THEN <<Stmt("confirm", outbreak_id, "", "")>> ELSE <<>>)
        \o <<CommitStmt>>

\* update_sample_status, lines 412-416
SampleStatusStatements(sample, status) ==
    <<Stmt("sample_status", sample, status, ""), CommitStmt>>

\* UPDATE outbreaks ... WHERE outbreak_id = id
UpdateOutbreak(d, id, row) ==
    IF id \in DOMAIN d.outbreaks
    THEN [d EXCEPT !.outbreaks[id] = row] ELSE d

\* UPDATE samples ... WHERE sample_id = id
UpdateSample(d, id, row) ==
    IF id \in DOMAIN d.samples
    THEN [d EXCEPT !.samples[id] = row] ELSE d

\* the contents after the connection executed statement st of submission by
Apply(st, d, by) ==
    CASE st.k = "insert_outbreak" ->
            [d EXCEPT !.outbreaks = Append(@, NewOutbreak)]
      [] st.k = "assign" /\ st.id \in DOMAIN d.outbreaks ->
            UpdateOutbreak(d, st.id, [d.outbreaks[st.id] EXCEPT
                !.investigator_name = st.name, !.status = "Assigned"])
      [] st.k = "complete" /\ st.id \in DOMAIN d.outbreaks ->
            UpdateOutbreak(d, st.id, [d.outbreaks[st.id] EXCEPT
                !.form_data = by, !.status = "Completed"])
      [] st.k = "confirm" /\ st.id \in DOMAIN d.outbreaks ->
            UpdateOutbreak(d, st.id, [d.outbreaks[st.id] EXCEPT !.status = "Confirmed"])
      [] st.k = "insert_case" ->
            [d EXCEPT !.outbreak_cases = Append(@, NewCase(st.id, by))]
      [] st.k = "insert_sample" ->
            [d EXCEPT !.samples = Append(@, NewSample(st.id, by))]
      [] st.k = "sample_status" /\ st.id \in DOMAIN d.samples ->
            UpdateSample(d, st.id, [d.samples[st.id] EXCEPT !.status = st.name])
      [] st.k = "sample_result" /\ st.id \in DOMAIN d.samples ->
            UpdateSample(d, st.id, [d.samples[st.id] EXCEPT
                !.status = "Results Available", !.result = st.result])
      [] OTHER -> d

\* a row of outbreak_cases or samples needs its outbreak: the insert raises
\* when the outbreak row is not there
Raises(st, d) ==
    st.k \in {"insert_case", "insert_sample"} /\ st.id \notin DOMAIN d.outbreaks

\* ---- the reads
\* GetUnassignedReports without the WHERE clause
GetUnassignedReportsAll(d) == DOMAIN d.outbreaks

\* get_unassigned_reports(): WHERE o.status = 'Unassigned'
GetUnassignedReports(d) ==
    {o \in DOMAIN d.outbreaks : d.outbreaks[o].status = "Unassigned"}

\* get_assigned_outbreaks(name): WHERE investigator_name = name AND status = 'Assigned'
GetAssignedOutbreaks(d, name) ==
    {o \in DOMAIN d.outbreaks :
        d.outbreaks[o].investigator_name = name /\ d.outbreaks[o].status = "Assigned"}

\* ---- calls
NoCall ==
    [op |-> "none", id |-> 0, sample |-> 0, name |-> "", result |-> "", lines |-> 0,
     samples |-> 0, by |-> 0, stmts |-> <<>>, pc |-> 0, before |-> NoDb]

\* what the caller of c gets back, with the arguments of c and the statement
\* c was at
ReturnOf(c, s, ok) ==
    [op |-> c.op, session |-> s, id |-> c.id, sample |-> c.sample, name |-> c.name,
     result |-> c.result, lines |-> c.lines, samples |-> c.samples, by |-> c.by,
     at |-> c.pc, ok |-> ok, before |-> c.before]

NoHistory == [added |-> FALSE, assigned |-> NoInvestigator, progressed |-> FALSE]

\* what has succeeded for each outbreak once call c has returned True
HistAfter(h, c) ==
    CASE c.op = "add" /\ c.id \in DOMAIN h -> [h EXCEPT ![c.id].added = TRUE]
      [] c.op = "assign" /\ c.id \in DOMAIN h ->
            [h EXCEPT ![c.id].assigned = c.name, ![c.id].progressed = FALSE]
      [] c.op = "submit" /\ c.id \in DOMAIN h -> [h EXCEPT ![c.id].progressed = TRUE]
      [] c.op = "lab" /\ c.id \in DOMAIN h /\ Lower(c.result) = "positive" ->
            [h EXCEPT ![c.id].progressed = TRUE]
      [] OTHER -> h

\* the add_new_outbreak_report calls that have not inserted their row yet
PendingAdds == {s \in sessions : calls[s].op = "add" /\ calls[s].pc <= 2}

\* A function is called: without a connection it returns (False, ...) at once
\* (lines 38, 88, 158, 410, 428), otherwise it goes on to its first statement.
Begin(s, c) ==
    /\ s \in sessions
    /\ calls[s].op = "none"
    /\ wf_ops < MaxOps
    /\ wf_ops' = wf_ops + 1
    /\ IF conn = "none"
       THEN /\ ret' = ReturnOf(c, s, FALSE)
            /\ UNCHANGED calls
       ELSE /\ calls' = [calls EXCEPT ![s] = c]
            /\ UNCHANGED ret
    /\ UNCHANGED <<conn, durable, conn_db, sessions, wf_hist, outsideWorkflow>>

CallOf(op, id, sample, name, result, lines, samples, stmts) ==
    [op |-> op, id |-> id, sample |-> sample, name |-> name, result |-> result,
     lines |-> lines, samples |-> samples, by |-> wf_ops + 1, stmts |-> stmts,
     pc |-> 1, before |-> durable]

WorkflowInit ==
    /\ conn \in {"open", "none"}
    /\ \E n \in 0..1, unlinked \in BOOLEAN :
          durable = [outbreaks |-> Repeat(NewOutbreak, n), outbreak_cases |-> <<>>,
                     samples |-> IF unlinked THEN <<NewSample(NoOutbreak, 0)>> ELSE <<>>]
    /\ conn_db = durable
    /\ sessions = {1}
    /\ calls = [s \in sessions |-> NoCall]
    /\ ret = NoReturn
    /\ wf_ops = 0
    /\ wf_hist = [o \in 1..MaxWfOutbreaks |-> NoHistory]
    /\ built_gdf = EmptyTable
    /\ gdf = EmptyTable
    /\ lisa_arg = [gdf |-> EmptyTable, attribute_column |-> ""]
    /\ lisa_gdf = EmptyTable
    /\ lisa_path = "none"
    /\ lisa_warned = FALSE
    /\ lisa_raised = "none"
    /\ lisa_cache = {}
    /\ lisa_calls = 0
    /\ db = [outbreaks |-> <<>>, outbreak_cases |-> <<>>]
    /\ dashboard_gdf = EmptyTable
    /\ dash_status = "none"
    /\ dash_fault = "none"
    /\ risk_gdf = EmptyTable
    /\ weights = <<>>
    /\ risk_arg = EmptyTable
    /\ risk_map_gdf = EmptyTable
    /\ risk_warnings = {}
    /\ risk_status = "none"
    /\ cases_df = EmptyTable
    /\ cases_arg = EmptyTable
    /\ costs = NoCosts
    /\ scenario_in = NoScenarioIn
    /\ scenario = NoScenario
    /\ cost_cache = {}
    /\ econ_last = "none"
    /\ econ_calls = 0
    /\ twice_op = "none"
    /\ twice_obj = EmptyTable
    /\ twice_weights = <<>>
    /\ twice_cache = {}
    /\ twice_out = <<>>
    /\ api_keys = <<>>
    /\ api_data = {}
    /\ api_response = NoResponse
    /\ woredas_n = 0
    /\ risk_file = EmptyTable
    /\ gen_status = "none"
    /\ ews_model = ""
    /\ ews_map = EmptyTable

SessionsInit ==
    /\ conn \in {"open", "none"}
    /\ \E n \in 0..1, unlinked \in BOOLEAN :
          durable = [outbreaks |-> Repeat(NewOutbreak, n), outbreak_cases |-> <<>>,
                     samples |-> IF unlinked THEN <<NewSample(NoOutbreak, 0)>> ELSE <<>>]
    /\ conn_db = durable
    /\ sessions = Sessions
    /\ calls = [s \in sessions |-> NoCall]
    /\ ret = NoReturn
    /\ wf_ops = 0
    /\ wf_hist = [o \in 1..MaxWfOutbreaks |-> NoHistory]
    /\ built_gdf = EmptyTable
    /\ gdf = EmptyTable
    /\ lisa_arg = [gdf |-> EmptyTable, attribute_column |-> ""]
    /\ lisa_gdf = EmptyTable
    /\ lisa_path = "none"
    /\ lisa_warned = FALSE
    /\ lisa_raised = "none"
    /\ lisa_cache = {}
    /\ lisa_calls = 0
    /\ db = [outbreaks |-> <<>>, outbreak_cases |-> <<>>]
    /\ dashboard_gdf = EmptyTable
    /\ dash_status = "none"
    /\ dash_fault = "none"
    /\ risk_gdf = EmptyTable
    /\ weights = <<>>
    /\ risk_arg = EmptyTable
    /\ risk_map_gdf = EmptyTable
    /\ risk_warnings = {}
    /\ risk_status = "none"
    /\ cases_df = EmptyTable
    /\ cases_arg = EmptyTable
    /\ costs = NoCosts
    /\ scenario_in = NoScenarioIn
    /\ scenario = NoScenario
    /\ cost_cache = {}
    /\ econ_last = "none"
    /\ econ_calls = 0
    /\ twice_op = "none"
    /\ twice_obj = EmptyTable
    /\ twice_weights = <<>>
    /\ twice_cache = {}
    /\ twice_out = <<>>
    /\ api_keys = <<>>
    /\ api_data = {}
    /\ api_response = NoResponse
    /\ woredas_n = 0
    /\ risk_file = EmptyTable
    /\ gen_status = "none"
    /\ ews_model = ""
    /\ ews_map = EmptyTable

\* add_new_outbreak_report(...), called by the report page
AddNewOutbreakReport(s, found) ==
    /\ Len(conn_db.outbreaks) + Cardinality(PendingAdds) < MaxWfOutbreaks
    /\ Begin(s, CallOf("add", 0, 0, "", "", 0, 0, AddStatements(found)))

\* assign_investigator_to_outbreak(outbreak_id, investigator_name)
AssignInvestigatorToOutbreak(s, id, name) ==
    /\ id \in DOMAIN conn_db.outbreaks
    /\ Begin(s, CallOf("assign", id, 0, name, "", 0, 0, AssignStatements(id, name)))

\* submit_full_investigation(...), called by the investigation hub for an
\* outbreak that get_assigned_outbreaks lists for the investigator of the page
\* (3_Field_Investigation_Hub.py lines 26-35, 115-121)
SubmitFullInvestigation(s, id, lines, samples) ==
    /\ conn = "open" => id \in GetAssignedOutbreaks(conn_db, CURRENT_INVESTIGATOR)
    /\ conn = "none" => id \in DOMAIN conn_db.outbreaks
    /\ Begin(s, CallOf("submit", id, 0, "", "", lines, samples,
                       InvestigationStatements(id, lines, samples)))

\* submit_lab_result(...), called by the lab page for a sample that
\* get_sample_by_field_id found (8_Lab_Results_Entry.py lines 40-61)
SubmitLabResult(s, sample, result) ==
    /\ sample \in DOMAIN conn_db.samples
    /\ Begin(s, CallOf("lab", conn_db.samples[sample].outbreak_id, sample, "", result,
                       0, 0,
                       LabStatements(sample, conn_db.samples[sample].outbreak_id, result)))

\* update_sample_status(sample_id, new_status)
UpdateSampleStatus(s, sample, status) ==
    /\ sample \in DOMAIN conn_db.samples
    /\ Begin(s, CallOf("status", 0, sample, status, "", 0, 0,
                       SampleStatusStatements(sample, status)))

\* cur.execute(...) of the next statement of session s succeeds
ExecuteStatement(s) ==
    LET c == calls[s]
        st == c.stmts[c.pc]
    IN /\ s \in sessions
       /\ c.op # "none"
       /\ st.k # "commit"
       /\ ~(st.k = "select_woreda" /\ st.name = "missing")
       /\ ~Raises(st, conn_db)
       /\ conn_db' = Apply(st, conn_db, c.by)
       /\ calls' = [calls EXCEPT ![s].pc = c.pc + 1,
                                 ![s].id = IF st.k = "insert_outbreak"
                                           THEN Len(conn_db.outbreaks) + 1 ELSE c.id]
       /\ UNCHANGED <<conn, durable, sessions, ret, wf_ops, wf_hist, outsideWorkflow>>

\* add_new_outbreak_report finds no woreda of that name and returns
\* (False, ...) without commit or rollback (lines 46-49)
WoredaNotFound(s) ==
    LET c == calls[s]
        st == c.stmts[c.pc]
    IN /\ s \in sessions
       /\ c.op # "none"
       /\ st.k = "select_woreda" /\ st.name = "missing"
       /\ calls' = [calls EXCEPT ![s] = NoCall]
       /\ ret' = ReturnOf(c, s, FALSE)
       /\ UNCHANGED <<conn, durable, conn_db, sessions, wf_ops, wf_hist, outsideWorkflow>>

\* conn.commit() of session s succeeds and the function returns (True, ...)
Commit(s) ==
    LET c == calls[s]
        st == c.stmts[c.pc]
    IN /\ s \in sessions
       /\ c.op # "none"
       /\ st.k = "commit"
       /\ durable' = conn_db
       /\ calls' = [calls EXCEPT ![s] = NoCall]
       /\ ret' = ReturnOf(c, s, TRUE)
       /\ wf_hist' = HistAfter(wf_hist, c)
       /\ UNCHANGED <<conn, conn_db, sessions, wf_ops, outsideWorkflow>>

\* Rollback without conn.rollback(): what the call executed stays in the open
\* transaction
RollbackSkipped(s) ==
    LET c == calls[s]
    IN /\ s \in sessions
       /\ c.op # "none"
       /\ calls' = [calls EXCEPT ![s] = NoCall]
       /\ ret' = ReturnOf(c, s, FALSE)
       /\ UNCHANGED <<conn, durable, conn_db, sessions, wf_ops, wf_hist, outsideWorkflow>>

\* the next statement (or the commit) of session s raises: the except clause
\* calls conn.rollback() and the function returns (False, ...)
Rollback(s) ==
    LET c == calls[s]
    IN /\ s \in sessions
       /\ c.op # "none"
       /\ conn_db' = durable
       /\ calls' = [calls EXCEPT ![s] = NoCall]
       /\ ret' = ReturnOf(c, s, FALSE)
       /\ UNCHANGED <<conn, durable, sessions, wf_ops, wf_hist, outsideWorkflow>>

NextWorkflow ==
    \E s \in Sessions :
        \/ \E found \in BOOLEAN : AddNewOutbreakReport(s, found)
        \/ \E id \in 1..MaxWfOutbreaks, name \in Investigators :
              AssignInvestigatorToOutbreak(s, id, name)
        \/ \E id \in 1..MaxWfOutbreaks, lines \in 0..MaxLineRows,
              samples \in 0..MaxSampleRows :
              SubmitFullInvestigation(s, id, lines, samples)
        \/ \E sample \in 1..(MaxSampleRows * MaxOps + 1), result \in LabResults :
              SubmitLabResult(s, sample, result)
        \/ \E sample \in 1..(MaxSampleRows * MaxOps + 1), status \in SampleStatusChoices :
              UpdateSampleStatus(s, sample, status)
        \/ ExecuteStatement(s)
        \/ WoredaNotFound(s)
        \/ Commit(s)
        \/ Rollback(s)

\* one user session
SpecWorkflow == WorkflowInit /\ [][NextWorkflow]_vars

\* the user sessions of the Streamlit server, all on the cached connection
SpecSessions == SessionsInit /\ [][NextWorkflow]_vars

\* ---------------------------------------------------------------- claims on the database workflow
\* no database call is in progress
Idle == \A s \in sessions : calls[s].op = "none"

WfOutbreaks == 1..MaxWfOutbreaks

\* C24 as stated: once add_new_outbreak_report has succeeded for an outbreak,
\* get_unassigned_reports lists it until assign_investigator_to_outbreak
\* succeeds for it; from then on get_unassigned_reports does not list it and
\* get_assigned_outbreaks lists it for the named investigator.
C24_AssignedListedEverAfter ==
    Idle =>
        \A o \in WfOutbreaks :
            wf_hist[o].added =>
                /\ wf_hist[o].assigned = NoInvestigator =>
                      o \in GetUnassignedReports(conn_db)
                /\ wf_hist[o].assigned # NoInvestigator =>
                      /\ o \notin GetUnassignedReports(conn_db)
                      /\ o \in GetAssignedOutbreaks(conn_db, wf_hist[o].assigned)

\* C24, amended: once add_new_outbreak_report has succeeded for an outbreak,
\* get_unassigned_reports lists it until assign_investigator_to_outbreak
\* succeeds for it; from then on get_unassigned_reports does not list it, and
\* get_assigned_outbreaks lists it for the investigator of the latest
\* successful assignment until submit_full_investigation or a positive
\* submit_lab_result succeeds for it.
C24_AssignedListedUntilInvestigated ==
    Idle =>
        \A o \in WfOutbreaks :
            wf_hist[o].added =>
                /\ wf_hist[o].assigned = NoInvestigator =>
                      o \in GetUnassignedReports(conn_db)
                /\ wf_hist[o].assigned # NoInvestigator =>
                      /\ o \notin GetUnassignedReports(conn_db)
                      /\ ~wf_hist[o].progressed =>
                            o \in GetAssignedOutbreaks(conn_db, wf_hist[o].assigned)

\* an added outbreak that was assigned and then investigated
C24_Witness ==
    /\ Idle
    /\ \E o \in WfOutbreaks :
          /\ wf_hist[o].added
          /\ wf_hist[o].assigned = CURRENT_INVESTIGATOR
          /\ wf_hist[o].progressed
          /\ conn_db.outbreaks[o].status = "Completed"
          /\ o \notin GetAssignedOutbreaks(conn_db, CURRENT_INVESTIGATOR)

\* C25: submit_full_investigation is all-or-nothing: it returns (True, ...)
\* with the outbreak 'Completed' and every line-list row and sample row
\* stored, or it returns (False, ...) with the outbreak status, outbreak_cases
\* and samples exactly as before the call.
C25_AllOrNothing ==
    (ret.op = "submit" /\ Idle) =>
        \/ /\ ret.ok
           /\ durable.outbreaks[ret.id].status = "Completed"
           /\ durable.outbreak_cases =
                 ret.before.outbreak_cases \o Repeat(NewCase(ret.id, ret.by), ret.lines)
           /\ durable.samples =
                 ret.before.samples \o Repeat(NewSample(ret.id, ret.by), ret.samples)
           /\ conn_db = durable
        \/ /\ ~ret.ok
           /\ durable = ret.before
           /\ conn_db = ret.before

\* a submission that failed at its commit, after the update and both inserts
C25_Witness ==
    /\ ret.op = "submit"
    /\ Idle
    /\ ~ret.ok
    /\ ret.lines = 1
    /\ ret.samples = 1
    /\ ret.at = 4
    /\ durable.outbreaks[ret.id].status = "Assigned"
    /\ durable.outbreak_cases = <<>>

\* C26: submit_lab_result sets the sample to 'Results Available' with the
\* given result and sets the parent outbreak to 'Confirmed' exactly when the
\* result is 'positive' in any letter case and the outbreak id is not null;
\* any other result leaves every outbreak status as it was, and a failure
\* leaves the sample and the outbreak as they were.
C26_LabResult ==
    (ret.op = "lab" /\ Idle) =>
        IF ret.ok
        THEN /\ durable = conn_db
             /\ durable.samples =
                   [ret.before.samples EXCEPT ![ret.sample].status = "Results Available",
                                              ![ret.sample].result = ret.result]
             /\ IF ret.result \in {"Positive", "positive"} /\ ret.id # NoOutbreak
                THEN durable.outbreaks =
                        [ret.before.outbreaks EXCEPT ![ret.id].status = "Confirmed"]
                ELSE durable.outbreaks = ret.before.outbreaks
        ELSE /\ durable = ret.before
             /\ conn_db = ret.before

\* a result 'Positive' confirmed a completed outbreak
C26_Witness ==
    /\ ret.op = "lab"
    /\ Idle
    /\ ret.ok
    /\ ret.result = "Positive"
    /\ ret.id # NoOutbreak
    /\ ret.before.outbreaks[ret.id].status = "Completed"
    /\ durable.outbreaks[ret.id].status = "Confirmed"
    /\ durable.samples[ret.sample].result = "Positive"

\* the rows of submission by that are durable
DurableCasesOf(by) ==
    {i \in DOMAIN durable.outbreak_cases : durable.outbreak_cases[i].by = by}
DurableSamplesOf(by) ==
    {i \in DOMAIN durable.samples : durable.samples[i].by = by}
DurableUpdateOf(id, by) ==
    id \in DOMAIN durable.outbreaks /\ durable.outbreaks[id].form_data = by

\* C29: with several sessions on the cached connection a
\* submit_full_investigation that returns (True, ...) has made its outbreak
\* update and all its rows durable, and one that returns (False, ...) has made
\* none of them durable.
C29_AllOrNothingAcrossSessions ==
    ret.op = "submit" =>
        IF ret.ok
        THEN /\ DurableUpdateOf(ret.id, ret.by)
             /\ Cardinality(DurableCasesOf(ret.by)) = ret.lines
             /\ Cardinality(DurableSamplesOf(ret.by)) = ret.samples
        ELSE /\ ~DurableUpdateOf(ret.id, ret.by)
             /\ DurableCasesOf(ret.by) = {}
             /\ DurableSamplesOf(ret.by) = {}

StatusOrder == <<"Unassigned", "Assigned", "Completed", "Confirmed">>
Rank(status) == CHOOSE k \in DOMAIN StatusOrder : StatusOrder[k] = status

\* C30: no operation returns an outbreak to an earlier status of Unassigned,
\* Assigned, Completed, Confirmed.
C30_StatusOnlyForward ==
    [][\A o \in DOMAIN durable.outbreaks :
          Rank(durable'.outbreaks[o].status) >= Rank(durable.outbreaks[o].status)]_vars

\* ---------------------------------------------------------------- partner API (api.py)
ApiKeys == {"key-a", "key-b"}
KeyStates == {"absent", "active", "inactive"}

\* request.headers.get('X-API-KEY'): None without the header
NoHeader == "NULL"
HeaderValues == {NoHeader, ""} \cup ApiKeys

\* request.endpoint: None for a URL no route matches
NoEndpoint == "None"
Endpoints == {"health_check", "get_zoonotic_outbreaks", NoEndpoint}

\* what get_api_db_connection and the query of line 45 can do
DbChoices == {"up", "down", "query_error"}

ApiOutbreakSets == {{}, {1}}

\* IsActiveKey without AND is_active = TRUE
IsStoredKey(keys, key) == key \in DOMAIN keys /\ keys[key] # "absent"

\* line 45: a row of api_keys WHERE api_key = key AND is_active = TRUE
IsActiveKey(keys, key) == key \in DOMAIN keys /\ keys[key] = "active"

Response(endpoint, key, code, body, rows, handler_ran) ==
    [endpoint |-> endpoint, key |-> key, code |-> code, body |-> body, rows |-> rows,
     handler_ran |-> handler_ran]

\* the view function of the endpoint, lines 57-60 and 62-102; reach is what
\* its own get_api_db_connection() and query give
Handler(endpoint, key, reach) ==
    CASE endpoint = "health_check" ->
            Response(endpoint, key, 200, "status", {}, TRUE)
      [] endpoint = "get_zoonotic_outbreaks" /\ reach = "down" ->
            Response(endpoint, key, 503, "error", {}, TRUE)
      [] endpoint = "get_zoonotic_outbreaks" /\ reach = "query_error" ->
            Response(endpoint, key, 500, "error", {}, TRUE)
      [] endpoint = "get_zoonotic_outbreaks" /\ reach = "up" ->
            Response(endpoint, key, 200, "data", api_data, TRUE)
      [] OTHER -> Response(endpoint, key, 404, "error", {}, FALSE)

\* check_api_key (lines 29-50) and then, when it returns None, the view
\* function; db1 is the middleware's connection, db2 the view function's
Dispatch(endpoint, key, db1, db2) ==
    IF endpoint = "health_check" THEN Handler(endpoint, key, db2)
    ELSE IF key \in {NoHeader, ""} THEN Response(endpoint, key, 401, "error", {}, FALSE)
    ELSE IF db1 = "down" THEN Response(endpoint, key, 503, "error", {}, FALSE)
    ELSE IF db1 = "query_error" THEN Response(endpoint, key, 500, "error", {}, FALSE)
    ELSE IF ~IsActiveKey(api_keys, key)
         THEN Response(endpoint, key, 403, "error", {}, FALSE)
    ELSE Handler(endpoint, key, db2)

ApiInit ==
    /\ api_keys \in [ApiKeys -> KeyStates]
    /\ api_data \in ApiOutbreakSets
    /\ api_response = NoResponse
    /\ built_gdf = EmptyTable
    /\ gdf = EmptyTable
    /\ lisa_arg = [gdf |-> EmptyTable, attribute_column |-> ""]
    /\ lisa_gdf = EmptyTable
    /\ lisa_path = "none"
    /\ lisa_warned = FALSE
    /\ lisa_raised = "none"
    /\ lisa_cache = {}
    /\ lisa_calls = 0
    /\ db = [outbreaks |-> <<>>, outbreak_cases |-> <<>>]
    /\ dashboard_gdf = EmptyTable
    /\ dash_status = "none"
    /\ dash_fault = "none"
    /\ risk_gdf = EmptyTable
    /\ weights = <<>>
    /\ risk_arg = EmptyTable
    /\ risk_map_gdf = EmptyTable
    /\ risk_warnings = {}
    /\ risk_status = "none"
    /\ cases_df = EmptyTable
    /\ cases_arg = EmptyTable
    /\ costs = NoCosts
    /\ scenario_in = NoScenarioIn
    /\ scenario = NoScenario
    /\ cost_cache = {}
    /\ econ_last = "none"
    /\ econ_calls = 0
    /\ twice_op = "none"
    /\ twice_obj = EmptyTable
    /\ twice_weights = <<>>
    /\ twice_cache = {}
    /\ twice_out = <<>>
    /\ conn = "unused"
    /\ durable = NoDb
    /\ conn_db = NoDb
    /\ sessions = {}
    /\ calls = <<>>
    /\ ret = NoReturn
    /\ wf_ops = 0
    /\ wf_hist = <<>>
    /\ woredas_n = 0
    /\ risk_file = EmptyTable
    /\ gen_status = "none"
    /\ ews_model = ""
    /\ ews_map = EmptyTable

\* one HTTP request, from before_request to the response
Request(endpoint, key, db1, db2) ==
    /\ api_response' = Dispatch(endpoint, key, db1, db2)
    /\ UNCHANGED <<api_keys, api_data, outsideApi>>

NextApi ==
    \E endpoint \in Endpoints, key \in HeaderValues, db1 \in DbChoices, db2 \in DbChoices :
        Request(endpoint, key, db1, db2)

SpecApi == ApiInit /\ [][NextApi]_vars

GeneratedLayers ==
    {"cattle_density", "proximity_to_market", "proximity_to_road", "rainfall_anomaly",
     "vegetation_index"}

\* np.random.rand(n) draws from [0, 1), np.random.uniform(-1, 1, n) from [-1, 1)
RandDraws == {Num(0), Rat(1, 2)}
UniformDraws == {Num(-1), Num(0), Rat(1, 2)}

\* DISEASE_MODELS of the page, lines 23-45 (weights in hundredths)
DISEASE_MODELS ==
    [m \in {"Foot-and-mouth disease (FMD)", "Rift Valley Fever (RVF)", "Custom Model"} |->
        IF m = "Foot-and-mouth disease (FMD)"
        THEN [f \in GeneratedLayers |->
                CASE f = "cattle_density" -> Rat(40, Percent)
                  [] f = "proximity_to_market" -> Rat(30, Percent)
                  [] f = "proximity_to_road" -> Rat(20, Percent)
                  [] OTHER -> Rat(5, Percent)]
        ELSE IF m = "Rift Valley Fever (RVF)"
        THEN [f \in GeneratedLayers |->
                CASE f = "cattle_density" -> Rat(10, Percent)
                  [] f = "rainfall_anomaly" -> Rat(50, Percent)
                  [] f = "vegetation_index" -> Rat(30, Percent)
                  [] OTHER -> Rat(5, Percent)]
        ELSE [f \in GeneratedLayers |-> Rat(20, Percent)]]

GenFaults == {"none", "no_connection", "save_failed"}

RiskDataInit ==
    /\ woredas_n \in 0..MaxRiskRegions
    /\ risk_file = EmptyTable
    /\ gen_status = "none"
    /\ ews_model = ""
    /\ ews_map = EmptyTable
    /\ built_gdf = EmptyTable
    /\ gdf = EmptyTable
    /\ lisa_arg = [gdf |-> EmptyTable, attribute_column |-> ""]
    /\ lisa_gdf = EmptyTable
    /\ lisa_path = "none"
    /\ lisa_warned = FALSE
    /\ lisa_raised = "none"
    /\ lisa_cache = {}
    /\ lisa_calls = 0
    /\ db = [outbreaks |-> <<>>, outbreak_cases |-> <<>>]
    /\ dashboard_gdf = EmptyTable
    /\ dash_status = "none"
    /\ dash_fault = "none"
    /\ risk_gdf = EmptyTable
    /\ weights = <<>>
    /\ risk_arg = EmptyTable
    /\ risk_map_gdf = EmptyTable
    /\ risk_warnings = {}
    /\ risk_status = "none"
    /\ cases_df = EmptyTable
    /\ cases_arg = EmptyTable
    /\ costs = NoCosts
    /\ scenario_in = NoScenarioIn
    /\ scenario = NoScenario
    /\ cost_cache = {}
    /\ econ_last = "none"
    /\ econ_calls = 0
    /\ twice_op = "none"
    /\ twice_obj = EmptyTable
    /\ twice_weights = <<>>
    /\ twice_cache = {}
    /\ twice_out = <<>>
    /\ conn = "unused"
    /\ durable = NoDb
    /\ conn_db = NoDb
    /\ sessions = {}
    /\ calls = <<>>
    /\ ret = NoReturn
    /\ wf_ops = 0
    /\ wf_hist = <<>>
    /\ api_keys = <<>>
    /\ api_data = {}
    /\ api_response = NoResponse

\* the layers of lines 32-36 for n woredas: rainfall_anomaly from
\* np.random.uniform(-1, 1, n), the others from np.random.rand(n)
DrawnLayers(rand, uniform) ==
    [f \in GeneratedLayers |-> IF f = "rainfall_anomaly" THEN uniform ELSE rand[f]]

\* generate_and_save_risk_data(): lines 14-17, 23-25, 32-36 and 39-44
GenerateAndSaveRiskData(fault) ==
    /\ gen_status = "none"
    /\ IF fault = "no_connection"
       THEN /\ gen_status' = "no_connection"
            /\ UNCHANGED risk_file
       ELSE IF woredas_n = 0
       THEN /\ gen_status' = "no_woredas"
            /\ UNCHANGED risk_file
       ELSE IF fault = "save_failed"
       THEN /\ gen_status' = "save_failed"
            /\ UNCHANGED risk_file
       ELSE /\ gen_status' = "saved"
            /\ \E rand \in [GeneratedLayers \ {"rainfall_anomaly"} ->
                                [1..woredas_n -> RandDraws]],
                  uniform \in [1..woredas_n -> UniformDraws] :
                  risk_file' = LayerTable(woredas_n, DrawnLayers(rand, uniform))
    /\ UNCHANGED <<woredas_n, ews_model, ews_map, outsideRiskData>>

\* 10_Early_Warning_System.py with a predefined model selected: lines 12-16
\* load the file (and stop without it), line 63 takes the model's weights,
\* line 71 scores the layers
EarlyWarningPage(model) ==
    /\ ews_model' = model
    /\ ews_map' = IF IsEmpty(risk_file) THEN EmptyTable
                  ELSE WeightedRiskBody(risk_file, DISEASE_MODELS[model]).gdf
    /\ UNCHANGED <<woredas_n, risk_file, gen_status, outsideRiskData>>

NextRiskData ==
    \/ \E fault \in GenFaults : GenerateAndSaveRiskData(fault)
    \/ \E model \in DOMAIN DISEASE_MODELS : EarlyWarningPage(model)

SpecRiskData == RiskDataInit /\ [][NextRiskData]_vars

\* C28: every layer that generate_and_save_risk_data writes holds only values
\* in [0, 1], and the final_risk_score the page computes from them with a
\* predefined weight model lies in [0, 1].
C28_LayersAndScoreInUnitInterval ==
    /\ \A f \in GeneratedLayers \cap Columns(risk_file) :
          \A i \in 1..risk_file.n : InUnitInterval(risk_file.data[f][i])
    /\ "final_risk_score" \in Columns(ews_map) =>
          \A i \in 1..ews_map.n : InUnitInterval(ews_map.data["final_risk_score"][i])

====
